---- MODULE Spec2Model ----
(***************************************************************************)
(* State-machine model of the arcade shooter's simulation core             *)
(* (src/game/GameEngine.ts with the entity classes of src/game/BlackHole.ts *)
(* lines 221-677, which are the classes the engine imports).                *)
(*                                                                         *)
(* Numbers.  Every real-valued quantity of the program (seconds, mana,      *)
(* health, charge level, damage, multipliers) is stored multiplied by 1000  *)
(* as an integer ("milli-units"): dt = 0.1 s is 100, mana 100 is 100000, a  *)
(* rate r per second applied for dt is r * dt.  Floating-point rounding is  *)
(* not modelled.                                                            *)
(*                                                                         *)
(* Geometry.  Positions are pixel coordinates, but only the coordinates of  *)
(* the finite set Points occur.  An entity's update integrates a velocity   *)
(* that depends on Math.random, trigonometry and steering input; the model  *)
(* draws the resulting position from Points (input "moves" of a frame),     *)
(* and evaluates every shape rule of the resolver on the coordinates.       *)
(*                                                                         *)
(* Purely cosmetic entities (Particle, ChargeParticle, Explosion,           *)
(* TeslaLightning, stars) take part in no rule of the resolver and are not  *)
(* stored; FloatingText entities are recorded in the log variable texts.    *)
(***************************************************************************)
EXTENDS Integers, Sequences, FiniteSets, TLC

VARIABLES
    state,                \* GameEngine.state
    player,               \* GameEngine.player (the Player object; present = FALSE is null)
    entities,             \* GameEngine.entities, in collection order
    score,                \* GameEngine.score
    difficultyMultiplier, \* GameEngine.difficultyMultiplier (milli)
    settings,             \* GameEngine.settings.difficulty
    spawnTimer,           \* GameEngine.spawnTimer (ms)
    bossActive,           \* GameEngine.bossActive
    bossNextSpawnScore,   \* GameEngine.bossNextSpawnScore
    shakeTimer,           \* GameEngine.shakeTimer (ms)
    shakeIntensity,       \* GameEngine.shakeIntensity
    hitStopTimer,         \* GameEngine.hitStopTimer (ms)
    rafPending,           \* number of animation-frame callbacks requested and not yet run
    ui,                   \* last argument of each UI callback, and the onGameOver calls of this game
    texts,                \* FloatingText entities pushed by the last operation
    trace,                \* observations of the last collision pass (see checkCollisions)
    size,                 \* GameEngine.width and GameEngine.height
    lastOp,               \* the operation that produced the current state, with its inputs
    ticks                 \* number of frames run since start() (each specification caps it)

vars == <<state, player, entities, score, difficultyMultiplier, settings, spawnTimer,
          bossActive, bossNextSpawnScore, shakeTimer, shakeIntensity, hitStopTimer,
          rafPending, ui, texts, trace, size, lastOp, ticks>>

----------------------------------------------------------------------------
(* Bounds of the model                                                      *)

MaxEntities == 6       \* entities in the collection besides the player

(* Program constants                                                        *)

Milli == 1000
Width == 800
Height == 600
Canvas == [width |-> Width, height |-> Height]   \* the size the canvas has at construction
MaxFrameDt == 100
ShieldCost == 40
BlackHoleCost == 60
ShockwaveCost == 50

Min(a, b) == IF a < b THEN a ELSE b
Max(a, b) == IF a > b THEN a ELSE b

----------------------------------------------------------------------------
(* Geometry                                                                 *)

Pt(x, y) == [x |-> x, y |-> y]

PStart == Pt(Width \div 2, Height - 100)      \* the player's position after start()
PNear  == Pt(Width \div 2, Height - 110)      \* 10 px from the player
PMid   == Pt(Width \div 2, Height - 400)      \* where triggerSkill(2) puts the black hole
PTop   == Pt(Width \div 2, -50)               \* spawnEnemy: y = -50
PBoss  == Pt(Width \div 2, -100)              \* spawnBoss: (width/2, -100)
PFar   == Pt(Width \div 2, -1100)             \* on the playfield side of the cull line y < -1200
POff   == Pt(Width \div 2, Height + 150)      \* below the cull line y > height + 100

Points == {PStart, PNear, PMid, PTop, PBoss, PFar, POff}

Dist2(p, q) == (p.x - q.x) * (p.x - q.x) + (p.y - q.y) * (p.y - q.y)

\* Math.sqrt(dx*dx + dy*dy) < r, for r >= 0
DistLess(p, q, r) == r > 0 /\ Dist2(p, q) < r * r

----------------------------------------------------------------------------
(* Entities                                                                 *)

NoTarget == 0      \* Missile.target = null
DeadTarget == -1   \* Missile.target refers to an enemy that was swept from the collection

Ent(kind, pos, radius) ==
    [kind |-> kind, id |-> 0, pos |-> pos, radius |-> radius, markedForDeletion |-> FALSE,
     etype |-> "NONE", isBoss |-> FALSE, health |-> 0, scoreValue |-> 0,
     fireTimer |-> 0, fireRate |-> 0, damage |-> 0, timer |-> 0, itemType |-> "NONE",
     target |-> NoTarget, rotation |-> 0, engineActive |-> FALSE, targetLostTimer |-> 0,
     phase |-> "NONE", length |-> 0, life |-> 0, isDespawning |-> FALSE, opacity |-> 0]

UsedIds(es) == {es[i].id : i \in 1..Len(es)}

\* Entity.id: a fresh identity (Math.random() in the source)
NewId(es) == CHOOSE n \in 1..(Len(es) + 1) : n \notin UsedIds(es)

Push(es, e) == Append(es, [e EXCEPT !.id = NewId(es)])

NullPlayer ==
    [present |-> FALSE, pos |-> PStart, markedForDeletion |-> FALSE,
     health |-> 0, maxHealth |-> 0, mana |-> 0, maxMana |-> 0,
     level |-> 0, xp |-> 0, nextLevelXp |-> 0, damageMultiplier |-> 0,
     sinceShot |-> 0, currentWeapon |-> "VULCAN", isCharging |-> FALSE, chargeLevel |-> 0,
     skills |-> [shield    |-> [current |-> 0, max |-> 0, active |-> FALSE,
                                duration |-> 0, activeTimer |-> 0],
                 blackhole |-> [current |-> 0, max |-> 0],
                 shockwave |-> [current |-> 0, max |-> 0]]]

\* new Player(width / 2, height - 100)
\* sinceShot is performance.now() - lastShotTime, capped: lastShotTime starts at 0
ShotCap == 1000
NewPlayer ==
    [present |-> TRUE, pos |-> PStart, markedForDeletion |-> FALSE,
     health |-> 100 * Milli, maxHealth |-> 100 * Milli,
     mana |-> 100 * Milli, maxMana |-> 100 * Milli,
     level |-> 1, xp |-> 0, nextLevelXp |-> 1000, damageMultiplier |-> Milli,
     sinceShot |-> ShotCap, currentWeapon |-> "VULCAN", isCharging |-> FALSE, chargeLevel |-> 0,
     skills |-> [shield    |-> [current |-> 0, max |-> 20 * Milli, active |-> FALSE,
                                duration |-> 5 * Milli, activeTimer |-> 0],
                 blackhole |-> [current |-> 0, max |-> 15 * Milli],
                 shockwave |-> [current |-> 0, max |-> 10 * Milli]]]

PlayerStub == [Ent("PLAYER", PStart, 20) EXCEPT !.id = 0]

\* The fields the resolver reads of entities[i]; the Player's live in the variable player
EPos(w, i) == IF w.entities[i].kind = "PLAYER" THEN w.player.pos ELSE w.entities[i].pos
EMarked(w, i) == IF w.entities[i].kind = "PLAYER" THEN w.player.markedForDeletion
                 ELSE w.entities[i].markedForDeletion

----------------------------------------------------------------------------
(* The engine's fields as one record, for the operators below               *)

\* What the last collision pass did, for the properties about the pass:
\*   lateTests - the pairs <<a.id, b.id>> whose rule was evaluated although the
\*               outer entity a was already marked for removal
\*   handled   - the pairs {a.id, b.id} passed to handleCollision
\*   hits      - per projectile id, the ids of the enemies it damaged
\*   damage    - every damage application of the frame: the entity's id (0 is the
\*               player), its health before, the amount and its health after
\*   pre       - the ids in the collection when the sweep starts
\*   marked    - the ids of the entities the sweep finds marked for removal
NoTrace == [lateTests |-> {}, handled |-> {}, hits |-> {}, damage |-> {},
            pre |-> {}, marked |-> {}, contacts |-> {}, dt |-> 0, outside |-> {},
            beam |-> {}, spawns |-> 0, born |-> {}, aims |-> {}, aimed |-> << >>,
            blows |-> {}, by |-> "NONE", weapon |-> << >>]

World == [state |-> state, player |-> player, entities |-> entities, score |-> score,
          difficultyMultiplier |-> difficultyMultiplier, settings |-> settings,
          spawnTimer |-> spawnTimer, bossActive |-> bossActive,
          bossNextSpawnScore |-> bossNextSpawnScore, shakeTimer |-> shakeTimer,
          shakeIntensity |-> shakeIntensity, hitStopTimer |-> hitStopTimer,
          rafPending |-> rafPending, ui |-> ui, texts |-> << >>, trace |-> NoTrace,
          size |-> size]

Commit(w) ==
    /\ state' = w.state
    /\ player' = w.player
    /\ entities' = w.entities
    /\ score' = w.score
    /\ difficultyMultiplier' = w.difficultyMultiplier
    /\ settings' = w.settings
    /\ spawnTimer' = w.spawnTimer
    /\ bossActive' = w.bossActive
    /\ bossNextSpawnScore' = w.bossNextSpawnScore
    /\ shakeTimer' = w.shakeTimer
    /\ shakeIntensity' = w.shakeIntensity
    /\ hitStopTimer' = w.hitStopTimer
    /\ rafPending' = w.rafPending
    /\ ui' = w.ui
    /\ texts' = w.texts
    /\ trace' = w.trace
    /\ size' = w.size

\* addShake(intensity, duration)
addShake(w, intensity, duration) ==
    [w EXCEPT !.shakeIntensity = intensity, !.shakeTimer = duration]

\* spawnFloatingText(text, color, pos?): pushes a FloatingText
spawnFloatingText(w, text, pos) ==
    [w EXCEPT !.texts = Append(@, [text |-> text, pos |-> pos])]

\* the default position of spawnFloatingText: 40 px above the player
AbovePlayer(w) == Pt(w.player.pos.x, w.player.pos.y - 40)

PushEntity(w, e) == [w EXCEPT !.entities = Push(@, e)]

----------------------------------------------------------------------------
(* Enemies, score and experience                                            *)

\* Enemy constructor: difficultyMult is in milli-units, so is health.
\* etype is the type drawn by Math.random(); fireDelay is Math.random() * fireRate.
BaseHealth(etype) == CASE etype = "ENEMY_BOSS" -> 15000
                       [] etype = "ENEMY_TANK" -> 800
                       [] etype = "ENEMY_KAMIKAZE" -> 60
                       [] etype = "ENEMY_FAST" -> 150
                       [] OTHER -> 200

EnemyRadius(etype) == CASE etype = "ENEMY_BOSS" -> 90
                        [] etype = "ENEMY_TANK" -> 45
                        [] etype = "ENEMY_KAMIKAZE" -> 15
                        [] etype = "ENEMY_FAST" -> 20
                        [] OTHER -> 25

ScoreValue(etype) == CASE etype = "ENEMY_BOSS" -> 20000
                       [] etype = "ENEMY_TANK" -> 800
                       [] etype = "ENEMY_KAMIKAZE" -> 300
                       [] etype = "ENEMY_FAST" -> 200
                       [] OTHER -> 100

FireRate(etype) == CASE etype = "ENEMY_BOSS" -> 800
                     [] etype = "ENEMY_TANK" -> 1800
                     [] etype = "ENEMY_KAMIKAZE" -> 99999
                     [] etype = "ENEMY_FAST" -> 1200
                     [] OTHER -> 2200

\* the scale below without its floor
HpScaleUnclamped(difficultyMult) == difficultyMult

\* line 487: hpScale (milli)
HpScale(difficultyMult) == Max(Milli, difficultyMult)

Enemy(pos, difficultyMult, isBoss, etype, fireDelay) ==
    LET type == IF isBoss THEN "ENEMY_BOSS" ELSE etype
        hpScale == HpScale(difficultyMult)
    IN [Ent("ENEMY", pos, EnemyRadius(type)) EXCEPT
            !.etype = type, !.isBoss = isBoss,
            !.health = BaseHealth(type) * hpScale,
            !.scoreValue = ScoreValue(type),
            !.fireRate = FireRate(type),
            !.fireTimer = Min(fireDelay, FireRate(type) - 1)]

\* Player.gainXp(amount)
gainXp(p, amount) ==
    LET xp == p.xp + amount IN
    IF xp >= p.nextLevelXp
    THEN [p EXCEPT !.xp = xp - p.nextLevelXp,
                   !.level = @ + 1,
                   !.nextLevelXp = (p.nextLevelXp * 3) \div 2,
                   !.damageMultiplier = @ + 300,
                   !.health = p.maxHealth,
                   !.mana = p.maxMana]
    ELSE [p EXCEPT !.xp = xp]

\* new Item(x, y): itemType drawn by Math.random()
Item(pos, itemType) == [Ent("ITEM", pos, 18) EXCEPT !.itemType = itemType]

\* dropItem(x, y): env.drop is Math.random() > 0.6
dropItem(w, pos, env) ==
    IF env.drop THEN PushEntity(w, Item(pos, env.itemType)) ELSE w

RECURSIVE dropItems(_, _, _, _)
dropItems(w, pos, env, n) ==
    IF n = 0 THEN w ELSE dropItems(dropItem(w, pos, env), pos, env, n - 1)

\* a threshold that grows with the difficulty
NextBossScoreScaled(w) == w.score + 5 * w.difficultyMultiplier

\* this.score + 5000
NextBossScore(w) == w.score + 5000

\* the guard below, never taken
CountedNever(enemy) == FALSE

\* line 446: an enemy that is marked for removal has been counted
Counted(enemy) == enemy.markedForDeletion

\* killEnemy(enemy), enemy = entities[i]
killEnemy(w, i, env) ==
    LET enemy == w.entities[i] IN
    IF Counted(enemy) THEN w
    ELSE
        LET w1 == [w EXCEPT !.entities[i].markedForDeletion = TRUE,
                            !.score = @ + enemy.scoreValue,
                            !.ui.score = w.score + enemy.scoreValue]
            w2 == IF enemy.isBoss
                  THEN dropItems(addShake([w1 EXCEPT !.bossActive = FALSE,
                                                     !.bossNextSpawnScore = NextBossScore(w1)],
                                          30, 2000),
                                 enemy.pos, env, 5)
                  ELSE dropItem(w1, enemy.pos, env)
        IN IF w2.player.present
           THEN [w2 EXCEPT !.player = gainXp(@, IF enemy.isBoss THEN 2000 ELSE 50)]
           ELSE w2

\* enemy.health -= dmg, for enemy = entities[i]
Hurt(w, i, dmg) ==
    LET e == w.entities[i]
    IN [w EXCEPT !.entities[i].health = e.health - dmg,
                 !.trace.blows = @ \cup {[by |-> w.trace.by, id |-> e.id,
                                          after |-> e.health - dmg]},
                 !.trace.damage = @ \cup {[id |-> e.id, before |-> e.health,
                                           dmg |-> dmg, after |-> e.health - dmg,
                                           at |-> EPos(w, i), worth |-> e.scoreValue,
                                           gone |-> e.markedForDeletion]}]

\* the damage below, taken twice
HurtPlayerTwice(w, dmg) ==
    LET h == w.player.health
    IN [w EXCEPT !.player.health = h - 2 * dmg,
                 !.ui.health = h - 2 * dmg,
                 !.trace.blows = @ \cup {[by |-> w.trace.by, id |-> 0,
                                          after |-> h - 2 * dmg]},
                 !.trace.damage = @ \cup {[id |-> 0, before |-> h,
                                           dmg |-> 2 * dmg, after |-> h - 2 * dmg,
                                           at |-> w.player.pos]}]

\* player.health -= dmg; this.onHealthChange(player.health)
HurtPlayer(w, dmg) ==
    LET h == w.player.health
    IN [w EXCEPT !.player.health = h - dmg,
                 !.ui.health = h - dmg,
                 !.trace.blows = @ \cup {[by |-> w.trace.by, id |-> 0, after |-> h - dmg]},
                 !.trace.damage = @ \cup {[id |-> 0, before |-> h,
                                           dmg |-> dmg, after |-> h - dmg,
                                           at |-> w.player.pos]}]

\* trace.by is the type of the entity entities[i], whose rule is about to apply
\* damage: the bullet, missile, laser, bomb or ability of the branch, or the
\* partner in a contact; trace.blows records it with every damage applied
Blame(w, i) == CHOOSE r \in {[v EXCEPT !.trace.by = v.entities[i].kind] : v \in {w}} : TRUE

\* the healing below without its cap
HealUncapped(p, amount) == p.health + amount

\* Math.min(player.maxHealth, player.health + amount)
Heal(p, amount) == Min(p.maxHealth, p.health + amount)

\* the damage below without the test of the health that is left
DamageEnemyOnly(w, i, dmg, env) == Hurt(w, i, dmg)

\* enemy.health -= dmg; if (enemy.health <= 0) this.killEnemy(enemy)
DamageEnemy(w, i, dmg, env) ==
    LET w1 == Hurt(w, i, dmg)
    IN IF w1.entities[i].health <= 0 THEN killEnemy(w1, i, env) ELSE w1

\* trace.born records the enemy that was pushed last, as its constructor made
\* it, with the multiplier of the engine at that moment
LogBorn(w) ==
    LET e == w.entities[Len(w.entities)]
    IN [w EXCEPT !.trace.born = @ \cup {[type |-> e.etype, health |-> e.health,
                                         mult |-> w.difficultyMultiplier]}]

\* spawnBoss()
spawnBoss(w, env) ==
    LogBorn(PushEntity([w EXCEPT !.bossActive = TRUE],
                       Enemy(Pt(w.size.width \div 2, -100), w.difficultyMultiplier, TRUE,
                             "ENEMY_BOSS", env.fireDelay)))

\* spawnEnemy(): x = 40 + Math.random() * (width - 80)
\* trace.spawns counts the calls of the frame
spawnEnemy(w, env) ==
    [LogBorn(PushEntity(w, Enemy(PTop, w.difficultyMultiplier, FALSE, env.etype,
                                 env.fireDelay)))
        EXCEPT !.trace.spawns = @ + 1]

----------------------------------------------------------------------------
(* triggerSkill(index)                                                      *)

\* the gate below without its test of the mana, and without its test of the cooldown
CanTriggerAnyMana(p, skill, cost) == skill.current <= 0
CanTriggerAnyCooldown(p, skill, cost) == p.mana >= cost * Milli

\* the gate of each branch: p.skills.<skill>.current <= 0 && p.mana >= <cost>
CanTrigger(p, skill, cost) == skill.current <= 0 /\ p.mana >= cost * Milli

triggerSkill(w, index) ==
    LET p == w.player IN
    IF ~p.present \/ p.markedForDeletion THEN w
    ELSE IF index = 1 /\ CanTrigger(p, p.skills.shield, ShieldCost) THEN
        LET p2 == [p EXCEPT !.mana = @ - ShieldCost * Milli,
                            !.skills.shield.current = p.skills.shield.max,
                            !.skills.shield.active = TRUE,
                            !.skills.shield.activeTimer = p.skills.shield.duration]
            w2 == PushEntity([w EXCEPT !.player = p2], Ent("SKILL_SHIELD", p.pos, 60))
        IN spawnFloatingText(addShake(w2, 5, 200), "SHIELD!", AbovePlayer(w2))
    ELSE IF index = 2 /\ CanTrigger(p, p.skills.blackhole, BlackHoleCost) THEN
        LET p2 == [p EXCEPT !.mana = @ - BlackHoleCost * Milli,
                            !.skills.blackhole.current = p.skills.blackhole.max]
            bh == [Ent("SKILL_BLACKHOLE", Pt(p.pos.x, p.pos.y - 300), 10)
                      EXCEPT !.life = 8 * Milli]
            w2 == PushEntity([w EXCEPT !.player = p2], bh)
        IN spawnFloatingText(addShake(w2, 10, 500), "SINGULARITY!", AbovePlayer(w2))
    ELSE IF index = 3 /\ CanTrigger(p, p.skills.shockwave, ShockwaveCost) THEN
        LET p2 == [p EXCEPT !.mana = @ - ShockwaveCost * Milli,
                            !.skills.shockwave.current = p.skills.shockwave.max]
            sw == [Ent("SKILL_SHOCKWAVE", p.pos, 10) EXCEPT !.opacity = Milli]
            w2 == PushEntity([w EXCEPT !.player = p2], sw)
        IN spawnFloatingText(addShake(w2, 25, 400), "SHOCKWAVE!", AbovePlayer(w2))
    ELSE w

\* the switch below without its reset of the charge
switchWeaponCharged(p) ==
    [p EXCEPT !.currentWeapon = CASE p.currentWeapon = "VULCAN" -> "PLASMA"
                                  [] p.currentWeapon = "PLASMA" -> "TESLA"
                                  [] p.currentWeapon = "TESLA" -> "BOMB"
                                  [] p.currentWeapon = "BOMB" -> "LASER"
                                  [] OTHER -> "VULCAN"]

\* Player.switchWeapon
switchWeapon(p) ==
    [p EXCEPT !.chargeLevel = 0, !.isCharging = FALSE,
              !.currentWeapon = CASE p.currentWeapon = "VULCAN" -> "PLASMA"
                                  [] p.currentWeapon = "PLASMA" -> "TESLA"
                                  [] p.currentWeapon = "TESLA" -> "BOMB"
                                  [] p.currentWeapon = "BOMB" -> "LASER"
                                  [] OTHER -> "VULCAN"]

\* triggerWeaponSwitch(); trace.weapon lists the arguments of the calls of
\* onWeaponChange made by the operation
triggerWeaponSwitch(w) ==
    IF w.player.present /\ ~w.player.markedForDeletion
    THEN LET p2 == switchWeapon(w.player)
         IN [w EXCEPT !.player = p2, !.ui.weapon = p2.currentWeapon,
                      !.trace.weapon = Append(@, p2.currentWeapon)]
    ELSE w

----------------------------------------------------------------------------
(* update(dt), part 1: timers, difficulty, spawning, input and weapons      *)

Ceil(milli) == (milli + Milli - 1) \div Milli

Indices(w) == 1..Len(w.entities)

IsEnemy(e) == e.kind = "ENEMY"

\* new Bullet(x, y, isPlayer, ...)
Bullet(pos, isPlayer, owner) ==
    IF isPlayer
    THEN [Ent("BULLET_PLAYER", pos, 4) EXCEPT !.damage = 30 * owner.damageMultiplier]
    ELSE [Ent("BULLET_ENEMY", pos, 7) EXCEPT !.damage = 10 * Milli]

\* new Missile(x, y, rotation, owner)
Missile(pos, owner) ==
    [Ent("WEAPON_MISSILE", pos, 25) EXCEPT !.damage = 80 * owner.damageMultiplier,
                                           !.engineActive = TRUE]

\* new Bomb(x, y, rotation)
Bomb(pos) == [Ent("WEAPON_BOMB", pos, 12) EXCEPT !.damage = 200 * Milli]

\* new Laser(owner): at the owner's nose, 40 px ahead
NosePos(p) == Pt(p.pos.x, p.pos.y - 40)
Laser(owner) ==
    [Ent("WEAPON_LASER", NosePos(owner), 10) EXCEPT !.phase = "CHARGING", !.length = 10]

RECURSIVE PushN(_, _, _)
PushN(w, e, n) == IF n = 0 THEN w ELSE PushN(PushEntity(w, e), e, n - 1)

\* the enemies the TESLA weapon strikes: the (at most) three unmarked enemies
\* nearest to the player, in the order of the stable sort
RECURSIVE NearestFirst(_, _, _)
NearestFirst(w, cand, n) ==
    IF n = 0 \/ cand = {} THEN << >>
    ELSE LET d(i) == Dist2(w.entities[i].pos, w.player.pos)
             best == CHOOSE i \in cand :
                        \A j \in cand : d(i) < d(j) \/ (d(i) = d(j) /\ i <= j)
         IN <<best>> \o NearestFirst(w, cand \ {best}, n - 1)

RECURSIVE TeslaStrike(_, _, _)
TeslaStrike(w, targets, env) ==
    IF targets = << >> THEN w
    ELSE LET i == Head(targets)
             dmg == 60 * w.player.damageMultiplier
             w1 == Hurt([w EXCEPT !.trace.by = PlayerStub.kind], i, dmg)
             w2 == spawnFloatingText(w1, ToString(Ceil(dmg)), w1.entities[i].pos)
             w3 == IF w2.entities[i].health <= 0 THEN killEnemy(w2, i, env) ELSE w2
         IN TeslaStrike(w3, Tail(targets), env)

\* the condition below without its test of the charge level
LaserCommitAnyCharge(p, existingBeam) == p.isCharging /\ ~existingBeam

\* line 241: the condition under which the released charge becomes a Laser
LaserCommit(p, existingBeam) ==
    p.isCharging /\ p.chargeLevel >= 100 * Milli /\ ~existingBeam

\* lines 232-306: the weapon logic of update, isFiring = env.fire
WeaponLogic(w, dt, env) ==
    LET p == w.player
        existingBeam == \E i \in Indices(w) : w.entities[i].kind = "WEAPON_LASER"
    IN
    IF p.currentWeapon = "LASER" THEN
        IF env.fire
        THEN [w EXCEPT !.player.isCharging = TRUE,
                       !.player.chargeLevel = Min(100 * Milli, p.chargeLevel + 100 * dt)]
        ELSE LET commit == LaserCommit(p, existingBeam)
                 w1 == IF commit
                       THEN addShake([PushEntity(w, Laser(p)) EXCEPT !.player.chargeLevel = 0],
                                     5, 2000)
                       ELSE w
             IN [w1 EXCEPT !.player.isCharging = FALSE,
                           !.player.chargeLevel = Max(0, w1.player.chargeLevel - 100 * dt * 2)]
    ELSE IF p.currentWeapon = "TESLA" THEN
        IF env.fire /\ p.sinceShot > 150
        THEN LET w1 == [w EXCEPT !.player.sinceShot = 0]
                 cand == {i \in Indices(w) : IsEnemy(w.entities[i])
                                              /\ ~w.entities[i].markedForDeletion}
             IN TeslaStrike(w1, NearestFirst(w1, cand, 3), env)
        ELSE w
    ELSE IF p.currentWeapon = "BOMB" THEN
        IF env.fire /\ p.sinceShot > 800
        THEN PushEntity([w EXCEPT !.player.sinceShot = 0], Bomb(p.pos))
        ELSE w
    ELSE IF p.currentWeapon = "PLASMA" THEN
        IF env.fire /\ p.sinceShot > 300
        THEN PushN([w EXCEPT !.player.sinceShot = 0], Missile(p.pos, p),
                   1 + Min(2, p.level \div 2))
        ELSE w
    ELSE
        IF env.fire /\ p.sinceShot > 80
        THEN PushN([w EXCEPT !.player.sinceShot = 0], Bullet(p.pos, TRUE, p),
                   IF p.level >= 2 THEN 4 ELSE 2)
        ELSE w

RECURSIVE PressKeys(_, _)
\* lines 221-224: the key presses consumed by this frame, in the order q, 1, 2, 3
PressKeys(w, keys) ==
    IF keys = << >> THEN w
    ELSE PressKeys(IF Head(keys) = 0 THEN triggerWeaponSwitch(w)
                   ELSE triggerSkill(w, Head(keys)),
                   Tail(keys))

KeySeq(keys) == (IF 0 \in keys THEN <<0>> ELSE << >>) \o (IF 1 \in keys THEN <<1>> ELSE << >>)
                \o (IF 2 \in keys THEN <<2>> ELSE << >>) \o (IF 3 \in keys THEN <<3>> ELSE << >>)

\* lines 308-309: the player is kept inside the playfield
ClampPos(sz, pos) ==
    Pt(Max(20, Min(sz.width - 20, pos.x)), Max(20, Min(sz.height - 20, pos.y)))

\* lines 216-310
PlayerInput(w, dt, env) ==
    IF w.player.present /\ ~w.player.markedForDeletion
    THEN LET w1 == WeaponLogic(PressKeys(w, KeySeq(env.keys)), dt, env)
         IN [w1 EXCEPT !.player.pos = ClampPos(w.size, @)]
    ELSE w

DifficultyBase(difficulty) == CASE difficulty = "EASY" -> 500
                                [] difficulty = "HARD" -> 1500
                                [] OTHER -> 1000

\* lines 185-210
\* a multiplier that falls as the score grows
MultiplierFalling(difficulty, points) == DifficultyBase(difficulty) - points \div 5

\* difficultyBase + (this.score / 5000), in milli-units
Multiplier(difficulty, points) == DifficultyBase(difficulty) + points \div 5

\* the test below without its test of the boss-active flag
BossDueWhileActive(w) == w.score > w.bossNextSpawnScore

\* this.score > this.bossNextSpawnScore && !this.bossActive
BossDue(w) == w.score > w.bossNextSpawnScore /\ ~w.bossActive

\* the interval below without its floor
SpawnRateUnclamped(w) ==
    IF w.bossActive THEN 25000 ELSE 18000 - w.difficultyMultiplier

\* line 203: spawnRate, in tenths of a millisecond
SpawnRate(w) ==
    IF w.bossActive THEN 25000 ELSE Max(3000, 18000 - w.difficultyMultiplier)

\* lines 184-210
Schedule(w, dt, env) ==
    LET w1 == IF w.shakeTimer > 0
              THEN [w EXCEPT !.shakeTimer = @ - dt,
                             !.shakeIntensity = IF w.shakeTimer - dt <= 0 THEN 0 ELSE @]
              ELSE w
        w2 == [w1 EXCEPT !.difficultyMultiplier = Multiplier(w.settings, w.score)]
        w3 == IF BossDue(w2) THEN spawnBoss(w2, env) ELSE w2
        w4 == [w3 EXCEPT !.spawnTimer = @ + dt]
    IN IF 10 * w4.spawnTimer > SpawnRate(w4) /\ ~w4.bossActive
       THEN spawnEnemy([w4 EXCEPT !.spawnTimer = 0], env)
       ELSE IF w4.bossActive /\ w4.spawnTimer > 3000
       THEN spawnEnemy([w4 EXCEPT !.spawnTimer = 0], env)
       ELSE w4

----------------------------------------------------------------------------
(* update(dt), part 2: the per-entity pass (lines 321-432)                  *)

HeadingSteps == 8      \* headings of a missile are counted in eighths of a turn

\* Where the integration of the velocity may take an entity within one frame.
\* Enemies, items and bombs keep the sign of their vertical velocity.
Moves(e) ==
    CASE e.kind = "PLAYER" -> {q \in Points : ClampPos(Canvas, q) = q}
      [] e.kind = "ENEMY" /\ e.isBoss -> {q \in Points : q.y >= e.pos.y /\ q.y <= 150}
      [] e.kind = "ENEMY" /\ ~e.isBoss -> {q \in Points : q.y >= e.pos.y}
      [] e.kind = "ITEM" -> {q \in Points : q.y >= e.pos.y}
      [] e.kind = "BULLET_PLAYER" -> {q \in Points : q.y <= e.pos.y}
      [] e.kind = "WEAPON_BOMB" -> {q \in Points : q.y <= e.pos.y}
      [] e.kind = "BULLET_ENEMY" -> Points
      [] e.kind = "WEAPON_MISSILE" -> Points
      [] OTHER -> {}

\* position += velocity * dt: the entities of the kinds env.movers reach env.to
Moved(e, pos, env) == IF e.kind \in env.movers /\ env.to \in Moves([e EXCEPT !.pos = pos])
                      THEN env.to ELSE pos

\* Player.update(dt)
PlayerUpdate(p, dt, env) ==
    LET cool(c) == IF c > 0 THEN c - dt ELSE c
        timer == p.skills.shield.activeTimer - dt
    IN [p EXCEPT !.pos = Moved(PlayerStub, p.pos, env),
                 !.mana = Min(p.maxMana, p.mana + 5 * dt),
                 !.skills.shield.current = cool(@),
                 !.skills.blackhole.current = cool(@),
                 !.skills.shockwave.current = cool(@),
                 !.skills.shield.activeTimer = IF p.skills.shield.active THEN timer ELSE @,
                 !.skills.shield.active = IF p.skills.shield.active THEN timer > 0 ELSE @]

\* Enemy.update(dt, playerPos)
EnemyUpdate(e, dt, env) ==
    [e EXCEPT !.pos = Moved(e, e.pos, env), !.fireTimer = @ - dt]

\* the update below without its test of the owner's shield
ShieldUpdateStays(e, w) == [e EXCEPT !.pos = w.player.pos]

\* Shield.update(dt)
ShieldUpdate(e, w) ==
    [e EXCEPT !.markedForDeletion = IF ~w.player.skills.shield.active THEN TRUE ELSE @,
              !.pos = w.player.pos]

\* Shockwave.update(dt)
ShockwaveUpdate(e, dt) ==
    LET opacity == e.opacity - (12 * dt) \div 10
    IN [e EXCEPT !.radius = @ + (1500 * dt) \div Milli,
                 !.opacity = opacity,
                 !.markedForDeletion = IF opacity <= 0 THEN TRUE ELSE @]

\* BlackHole.update(dt) (the class with the life field the engine reads);
\* timer is despawnTimer
BlackHoleUpdate(e, dt) ==
    IF ~e.isDespawning
    THEN [e EXCEPT !.life = @ - dt, !.isDespawning = (e.life - dt <= 0)]
    ELSE [e EXCEPT !.timer = @ + dt,
                   !.markedForDeletion = IF e.timer + dt > 1000 THEN TRUE ELSE @]

\* Bomb.update(dt); timer is Bomb.timer, detonationTime = 0.6
BombUpdate(e, dt, env) ==
    [e EXCEPT !.timer = @ + dt,
              !.pos = Moved(e, e.pos, env),
              !.markedForDeletion = IF e.timer + dt >= 600 THEN TRUE ELSE @]

\* the transitions below with the burst left out
NextPhaseSkipping(phase) == CASE phase = "CHARGING" -> "SUSTAINING"
                              [] phase = "FIRING" -> "SUSTAINING"
                              [] OTHER -> "DECAYING"

\* updateStateLogic: the argument of transitionTo in each case of the switch
NextPhase(phase) == CASE phase = "CHARGING" -> "FIRING"
                      [] phase = "FIRING" -> "SUSTAINING"
                      [] OTHER -> "DECAYING"

\* updateStateLogic: the time after which each phase is left (ms)
PhaseDuration(phase) == CASE phase = "CHARGING" -> 300
                          [] phase = "FIRING" -> 100
                          [] phase = "SUSTAINING" -> 2000
                          [] OTHER -> 400

\* Laser.update(dt); timer is timeInPhase
LaserUpdate(e, w, dt) ==
    IF w.player.markedForDeletion THEN [e EXCEPT !.markedForDeletion = TRUE]
    ELSE
        LET t == e.timer + dt
            \* updateStateLogic / transitionTo
            e1 == IF t < PhaseDuration(e.phase) THEN [e EXCEPT !.timer = t]
                  ELSE IF e.phase = "DECAYING"
                  THEN [e EXCEPT !.timer = t, !.markedForDeletion = TRUE]
                  ELSE [e EXCEPT !.phase = NextPhase(e.phase), !.timer = 0]
            \* updateGeometry
            targetLen == IF e1.phase = "CHARGING" THEN (100 * e1.timer) \div 300 ELSE 1500
            grown == e1.length + (4500 * dt) \div Milli
            length == IF e1.length < targetLen THEN Min(grown, targetLen) ELSE e1.length
            widthMilli == CASE e1.phase = "CHARGING" -> 100
                            [] e1.phase = "FIRING" -> 1500
                            [] e1.phase = "SUSTAINING" -> 1000
                            [] OTHER -> Max(0, 1000 - (1000 * e1.timer) \div 400)
            levelFactor == Milli + 200 * w.player.level
            width == (45 * widthMilli * levelFactor) \div (Milli * Milli)
            \* updateDamage
            damage == IF e1.phase \in {"CHARGING", "DECAYING"} THEN 0
                      ELSE ((30 * w.player.damageMultiplier * levelFactor) \div Milli)
                           * (IF e1.phase = "FIRING" THEN 2 ELSE 1)
        IN [e1 EXCEPT !.pos = NosePos(w.player), !.length = length,
                      !.radius = width \div 2, !.damage = damage]

\* Missile.updateTargeting(entities): the enemy acquired by the radar scan, or NoTarget
ScanRadius == 1500
Scan(e, w) ==
    LET inRange == {i \in Indices(w) : /\ IsEnemy(w.entities[i])
                                      /\ ~w.entities[i].markedForDeletion
                                      /\ DistLess(w.entities[i].pos, e.pos, ScanRadius)}
        d(i) == Dist2(w.entities[i].pos, e.pos)
    IN IF inRange = {} THEN NoTarget
       ELSE w.entities[CHOOSE i \in inRange :
                          \A j \in inRange : d(i) < d(j) \/ (d(i) = d(j) /\ i <= j)].id

\* the test below without its test of the mark
TargetGoneOnlyNull(e, w) == e.target = NoTarget

\* updateTargeting: !this.target || this.target.markedForDeletion
TargetGone(e, w) ==
    \/ e.target = NoTarget
    \/ e.target = DeadTarget
    \/ \E i \in Indices(w) : w.entities[i].id = e.target /\ w.entities[i].markedForDeletion

\* the early return below without its test of the target
UnguidedEngineOnly(target, engineActive) == ~engineActive

\* Missile.updateGuidance returns at once: if (!this.target || !this.engineActive) return
Unguided(target, engineActive) == target = NoTarget \/ ~engineActive

TimeToLive == 6000     \* if (this.flightTime > 6.0) this.markedForDeletion = true

\* Missile.update(dt, enemies); timer is flightTime
MissileUpdate(e, w, dt, env) ==
    LET flightTime == e.timer + dt
        \* updateTargeting
        rescan == TargetGone(e, w)
        target == IF rescan THEN Scan(e, w) ELSE e.target
        lost == IF rescan
                THEN (IF target = NoTarget THEN e.targetLostTimer + 16 ELSE 0)
                ELSE e.targetLostTimer
        engine1 == IF rescan /\ target = NoTarget /\ lost > 1000 THEN FALSE ELSE e.engineActive
        \* updatePropulsion: BURN_TIME = 3.5
        engine2 == IF flightTime < 3500 /\ engine1 THEN engine1 ELSE FALSE
        \* updateGuidance: the clamped PID output turns the heading by env.steer
        rotation == IF Unguided(target, engine2) THEN e.rotation
                    ELSE (e.rotation + env.steer) % HeadingSteps
    IN [e EXCEPT !.timer = flightTime, !.target = target, !.targetLostTimer = lost,
                 !.engineActive = engine2, !.rotation = rotation,
                 !.pos = Moved(e, e.pos, env),
                 !.markedForDeletion = IF flightTime > TimeToLive THEN TRUE ELSE @]

\* trace.aims records an update of the missile entities[i]: the target it came
\* with, the enemies of the world win it was updated in (distance squared,
\* mark, position in the list), the target it left with and whether its
\* guidance ran
LogAim(wout, win, i) ==
    LET e == win.entities[i]
        after == wout.entities[i]
    IN [wout EXCEPT !.trace.aims = @ \cup
           {[id |-> e.id, had |-> e.target, target |-> after.target,
             guided |-> ~Unguided(after.target, after.engineActive),
             enemies |-> {[id |-> win.entities[k].id,
                           d2 |-> Dist2(win.entities[k].pos, e.pos),
                           marked |-> win.entities[k].markedForDeletion,
                           at |-> k] :
                             k \in {n \in Indices(win) : IsEnemy(win.entities[n])}}]}]

\* entity.update(dt, ...) of entities[i]
EntityUpdate(w, i, dt, env) ==
    LET e == w.entities[i] IN
    CASE e.kind = "PLAYER" -> [w EXCEPT !.player = PlayerUpdate(@, dt, env)]
      [] e.kind = "ENEMY" -> [w EXCEPT !.entities[i] = EnemyUpdate(e, dt, env)]
      [] e.kind = "SKILL_SHIELD" -> [w EXCEPT !.entities[i] = ShieldUpdate(e, w)]
      [] e.kind = "SKILL_SHOCKWAVE" -> [w EXCEPT !.entities[i] = ShockwaveUpdate(e, dt)]
      [] e.kind = "SKILL_BLACKHOLE" -> [w EXCEPT !.entities[i] = BlackHoleUpdate(e, dt)]
      [] e.kind = "WEAPON_BOMB" -> [w EXCEPT !.entities[i] = BombUpdate(e, dt, env)]
      [] e.kind = "WEAPON_LASER" -> [w EXCEPT !.entities[i] = LaserUpdate(e, w, dt)]
      [] e.kind = "WEAPON_MISSILE" ->
             LogAim([w EXCEPT !.entities[i] = MissileUpdate(e, w, dt, env)], w, i)
      [] OTHER -> [w EXCEPT !.entities[i].pos = Moved(e, e.pos, env)]

\* lines 356-364 and 374-382: area damage to every enemy of the frame's enemy list
RECURSIVE AreaDamage(_, _, _, _, _, _)
AreaDamage(w, i, center, radius, dmg, env) ==
    IF i > Len(w.entities) THEN w
    ELSE IF IsEnemy(w.entities[i]) /\ DistLess(w.entities[i].pos, center, radius)
    THEN LET w1 == Hurt(w, i, dmg)
             w2 == spawnFloatingText(w1, ToString(Ceil(dmg)), w1.entities[i].pos)
             w3 == IF w2.entities[i].health <= 0 THEN killEnemy(w2, i, env) ELSE w2
         IN AreaDamage(w3, i + 1, center, radius, dmg, env)
    ELSE AreaDamage(w, i + 1, center, radius, dmg, env)

\* lines 351-365
BombDetonation(w, i, env) ==
    LET e == w.entities[i] IN
    IF e.kind = "WEAPON_BOMB" /\ e.markedForDeletion /\ e.timer >= 600
    THEN AreaDamage(Blame(addShake(w, 20, 400), i), 1, e.pos, 150,
                    (e.damage * (IF w.player.present THEN w.player.damageMultiplier
                                 ELSE Milli)) \div Milli, env)
    ELSE w

\* lines 368-383
BlackHoleDeath(w, i, env) ==
    LET e == w.entities[i] IN
    IF e.kind = "SKILL_BLACKHOLE" /\ e.markedForDeletion /\ e.life <= 0
    THEN AreaDamage(Blame(addShake(w, 30, 600), i), 1, e.pos, 300, 500 * Milli, env)
    ELSE w

\* lines 386-424
EnemyFire(w, i) ==
    LET e == w.entities[i] IN
    IF IsEnemy(e) /\ e.fireTimer <= 0
    THEN LET w1 == [w EXCEPT !.entities[i].fireTimer =
                                 (e.fireRate * Milli) \div Min(w.difficultyMultiplier, 2500)]
         IN IF e.etype = "ENEMY_BOSS"
            THEN LET w2 == PushN(w1, Bullet(e.pos, FALSE, w.player), 12)
                 IN IF w.player.present
                    THEN PushEntity(w2, [Bullet(e.pos, FALSE, w.player) EXCEPT !.radius = 12])
                    ELSE w2
            ELSE IF e.etype # "ENEMY_KAMIKAZE"
            THEN PushEntity(w1, Bullet(Pt(e.pos.x, e.pos.y + 20), FALSE, w.player))
            ELSE w1
    ELSE w

IsSkill(kind) == kind \in {"SKILL_SHIELD", "SKILL_SHOCKWAVE", "SKILL_BLACKHOLE"}

\* enum EntityType: the members in declaration order; none has an initialiser,
\* so the value of the n-th member is the number n - 1
EntityType ==
    <<"PLAYER", "ENEMY_BASIC", "ENEMY_FAST", "ENEMY_TANK", "ENEMY_KAMIKAZE", "ENEMY_BOSS",
      "BULLET_PLAYER", "BULLET_ENEMY", "PARTICLE", "CHARGE_PARTICLE", "STAR", "NEBULA",
      "ITEM", "SKILL_SHIELD", "SKILL_SHOCKWAVE", "SKILL_BLACKHOLE", "FLOATING_TEXT",
      "WEAPON_LASER", "WEAPON_TESLA", "WEAPON_BOMB", "WEAPON_MISSILE", "EXPLOSION_EFFECT">>

\* entity.type
TypeOf(e) == IF e.kind = "ENEMY" THEN e.etype ELSE e.kind
TypeValue(name) == (CHOOSE n \in 1..Len(EntityType) : EntityType[n] = name) - 1

\* entity.type.toString(): the decimal numeral of the member's value
TypeString(e) == ToString(TypeValue(TypeOf(e)))

\* s.startsWith('SKILL'), for s a numeral or the name of a member
StartsWithSkill(s) == s \in {EntityType[n] : n \in {m \in 1..Len(EntityType) : IsSkill(EntityType[m])}}

OffScreen(sz, pos) ==
    pos.y > sz.height + 100 \/ pos.y < -1200 \/ pos.x < -100 \/ pos.x > sz.width + 100

\* lines 426-431; trace.outside records the entities found outside the rectangle
Cull(w, i) ==
    LET e == w.entities[i]
        spared == \/ TypeOf(e) = "PLAYER"
                  \/ TypeOf(e) = "NEBULA"
                  \/ StartsWithSkill(TypeString(e))
    IN IF OffScreen(w.size, EPos(w, i))
       THEN [w EXCEPT !.entities[i].markedForDeletion = IF spared THEN @ ELSE TRUE,
                      !.trace.outside = @ \cup {[id |-> e.id, kind |-> e.kind,
                                                 marked |-> ~spared]}]
       ELSE w

\* the body of this.entities.forEach(entity => ...), for entity = entities[i]
EntityStep(w, i, dt, env) ==
    Cull(EnemyFire(BlackHoleDeath(BombDetonation(EntityUpdate(w, i, dt, env), i, env),
                                  i, env), i), i)

\* forEach visits the indices below the length the collection had when it started
RECURSIVE EntityPass(_, _, _, _, _)
EntityPass(w, i, n, dt, env) ==
    IF i > n \/ i > Len(w.entities) THEN w
    ELSE EntityPass(EntityStep(w, i, dt, env), i + 1, n, dt, env)

----------------------------------------------------------------------------
(* checkCollisions and handleCollision                                      *)

Kind(w, i) == w.entities[i].kind

LogHit(w, projectile, enemy) ==
    [w EXCEPT !.trace.hits = @ \cup {<<w.entities[projectile].id, w.entities[enemy].id>>}]

\* trace.beam records the health that a Laser takes from an enemy, with the
\* phase the Laser is in
LogBeam(w, l, target, dmg) ==
    [w EXCEPT !.trace.beam = @ \cup {[phase |-> l.phase, dmg |-> dmg,
                                      enemy |-> w.entities[target].id,
                                      health |-> w.entities[target].health]}]

\* the observation of a contact of the player with other = entities[i]:
\* the world win at the entry of lines 660-685 and the world wout at their exit
LogContact(win, wout, i) ==
    [wout EXCEPT !.trace.contacts = @ \cup
        {[other |-> win.entities[i].id,
          kind |-> Kind(win, i),
          shield |-> win.player.skills.shield.active,
          before |-> win.player.health,
          after |-> wout.player.health,
          levelled |-> wout.player.level > win.player.level,
          marked |-> wout.entities[i].markedForDeletion,
          said |-> SubSeq(wout.texts, Len(win.texts) + 1, Len(wout.texts)),
          at |-> wout.player.pos]}]

\* the condition below for any partner of the player
HarmsPlayerWhoever(isPlayer, isEnemy, isEnemyBullet) == isPlayer

\* line 660: (isEnemyBullet && isPlayer) || (isEnemy && isPlayer)
HarmsPlayer(isPlayer, isEnemy, isEnemyBullet) ==
    (isEnemyBullet /\ isPlayer) \/ (isEnemy /\ isPlayer)

\* handleCollision(a, b), a = entities[ai], b = entities[bi]
handleCollision(w0, ai, bi, env) ==
    LET w == [w0 EXCEPT !.trace.handled = @ \cup {{w0.entities[ai].id, w0.entities[bi].id}}]
        isPlayer == Kind(w, ai) = "PLAYER" \/ Kind(w, bi) = "PLAYER"
        isEnemy == Kind(w, ai) = "ENEMY" \/ Kind(w, bi) = "ENEMY"
        isPlayerBullet == Kind(w, ai) = "BULLET_PLAYER" \/ Kind(w, bi) = "BULLET_PLAYER"
        isEnemyBullet == Kind(w, ai) = "BULLET_ENEMY" \/ Kind(w, bi) = "BULLET_ENEMY"
        \* lines 648-658
        w1 == IF isPlayerBullet /\ isEnemy
              THEN LET enemy == IF Kind(w, ai) = "ENEMY" THEN ai ELSE bi
                       bullet == IF Kind(w, ai) = "BULLET_PLAYER" THEN ai ELSE bi
                       dmg == w.entities[bullet].damage
                       wa == LogHit(Hurt(Blame([w EXCEPT
                                                   !.entities[bullet].markedForDeletion = TRUE],
                                               bullet),
                                         enemy, dmg),
                                    bullet, enemy)
                       wb == spawnFloatingText(wa, ToString(Ceil(dmg)), wa.entities[enemy].pos)
                   IN IF wb.entities[enemy].health <= 0 THEN killEnemy(wb, enemy, env) ELSE wb
              ELSE w
    IN
    \* lines 660-685
    IF HarmsPlayer(isPlayer, isEnemy, isEnemyBullet)
    THEN LET pl == IF Kind(w1, ai) = "PLAYER" THEN ai ELSE bi
             other == IF ai = pl THEN bi ELSE ai
         IN IF w1.player.skills.shield.active THEN LogContact(w1, w1, other)
            ELSE LogContact(w1,
                 LET w2 == IF Kind(w1, other) \in {"BULLET_PLAYER", "BULLET_ENEMY"}
                           THEN [w1 EXCEPT !.entities[other].markedForDeletion = TRUE]
                           ELSE IF Kind(w1, other) = "ENEMY"
                           THEN DamageEnemy(Blame(w1, pl), other, 100 * Milli, env)
                           ELSE w1
                     dmg == 10
                     w3 == HurtPlayer(Blame(w2, other), dmg * Milli)
                     w4 == addShake(spawnFloatingText(w3, "-" \o ToString(dmg), w3.player.pos),
                                    15, 400)
                     w5 == [w4 EXCEPT !.hitStopTimer = 50]
                 IN IF w5.player.health <= 0
                    THEN [w5 EXCEPT !.player.markedForDeletion = TRUE]
                    ELSE w5,
                 other)
    ELSE w1

\* Math.abs(dist - wave.radius) < 60
NearRing(p, q, radius) ==
    /\ Dist2(p, q) < (radius + 60) * (radius + 60)
    /\ (radius - 60 < 0 \/ Dist2(p, q) > (radius - 60) * (radius - 60))

\* a shield that nothing reaches
ShieldedNever(w, ai, bi) == FALSE

\* lines 578-581: a or b is the player with its shield active, and the other
\* one is within 50 + other.radius of it
Shielded(w, ai, bi) ==
    LET a == w.entities[ai]
        b == w.entities[bi]
        other == IF a.kind = "PLAYER" THEN b ELSE a
    IN /\ (a.kind = "PLAYER" \/ b.kind = "PLAYER")
       /\ w.player.skills.shield.active
       /\ DistLess(EPos(w, ai), EPos(w, bi), 50 + other.radius)

\* lines 497-637: the body of the inner loop for a = entities[ai], b = entities[bi]
PairRule(w, ai, bi, env) ==
    LET a == w.entities[ai]
        b == w.entities[bi]
        pa == EPos(w, ai)
        pb == EPos(w, bi)
    IN
    IF a.kind = "SKILL_SHOCKWAVE" \/ b.kind = "SKILL_SHOCKWAVE" THEN
        LET wave == IF a.kind = "SKILL_SHOCKWAVE" THEN ai ELSE bi
            other == IF ai = wave THEN bi ELSE ai
        IN IF NearRing(EPos(w, wave), EPos(w, other), w.entities[wave].radius)
           THEN IF Kind(w, other) = "ENEMY"
                THEN LET dmg == 2 * Milli
                         w1 == Hurt(Blame(w, wave), other, dmg)
                         w2 == spawnFloatingText(w1, ToString(Ceil(dmg)), EPos(w1, other))
                     IN IF w2.entities[other].health <= 0
                        THEN killEnemy(w2, other, env) ELSE w2
                ELSE IF Kind(w, other) = "BULLET_ENEMY"
                THEN [w EXCEPT !.entities[other].markedForDeletion = TRUE]
                ELSE w
           ELSE w
    ELSE IF a.kind = "SKILL_BLACKHOLE" \/ b.kind = "SKILL_BLACKHOLE" THEN
        LET bh == IF a.kind = "SKILL_BLACKHOLE" THEN ai ELSE bi
            other == IF ai = bh THEN bi ELSE ai
        IN IF Kind(w, other) = "ENEMY" /\ ~w.entities[other].isBoss
           \* bh.pullRadius is not a field of BlackHole: dist < undefined is false
           THEN IF DistLess(EPos(w, bh), EPos(w, other), 40)
                THEN DamageEnemy(Blame(w, bh), other, 5 * Milli, env)
                ELSE w
           ELSE IF Kind(w, other) = "BULLET_ENEMY"
           THEN IF DistLess(EPos(w, bh), EPos(w, other), w.entities[bh].radius + 20)
                THEN LET w1 == [w EXCEPT !.entities[other].markedForDeletion = TRUE]
                     IN IF w1.player.present
                        THEN LET h == Heal(w1.player, 1 * Milli)
                             IN [w1 EXCEPT !.player.health = h, !.ui.health = h]
                        ELSE w1
                ELSE w
           ELSE w
    ELSE IF (a.kind = "ITEM" /\ b.kind = "PLAYER") \/ (b.kind = "ITEM" /\ a.kind = "PLAYER") THEN
        LET item == IF a.kind = "ITEM" THEN ai ELSE bi
            it == w.entities[item]
            p == w.player
        IN IF DistLess(pa, pb, 20 + it.radius)
           THEN LET w1 == [w EXCEPT !.entities[item].markedForDeletion = TRUE]
                    w2 == CASE it.itemType = "HEALTH" ->
                                 LET h == Heal(p, 30 * Milli)
                                 IN spawnFloatingText([w1 EXCEPT !.player.health = h,
                                                                 !.ui.health = h],
                                                      "+HP", it.pos)
                            [] it.itemType = "MANA" ->
                                 spawnFloatingText(
                                     [w1 EXCEPT !.player.mana =
                                                    Min(p.maxMana, p.mana + 50 * Milli)],
                                     "+MANA", it.pos)
                            [] it.itemType = "WEAPON_UP" ->
                                 spawnFloatingText([w1 EXCEPT !.player = gainXp(@, 300)],
                                                   "LEVEL UP!", it.pos)
                            [] OTHER -> w1
                IN [w2 EXCEPT !.ui.score = w2.score]
           ELSE w
    ELSE IF \/ (a.kind = "BULLET_PLAYER" /\ b.kind = "PLAYER")
            \/ (a.kind = "BULLET_ENEMY" /\ b.kind = "ENEMY")
            \/ (a.kind = "ENEMY" /\ b.kind = "ENEMY") THEN w
    ELSE IF Shielded(w, ai, bi) THEN
        LET other == IF a.kind = "PLAYER" THEN bi ELSE ai
        IN IF Kind(w, other) = "BULLET_ENEMY"
           THEN [w EXCEPT !.entities[other].markedForDeletion = TRUE]
           ELSE w
    ELSE IF a.kind = "WEAPON_LASER" \/ b.kind = "WEAPON_LASER" THEN
        LET laser == IF a.kind = "WEAPON_LASER" THEN ai ELSE bi
            target == IF a.kind = "WEAPON_LASER" THEN bi ELSE ai
            l == w.entities[laser]
            relX == IF EPos(w, target).x >= l.pos.x THEN EPos(w, target).x - l.pos.x
                    ELSE l.pos.x - EPos(w, target).x
            relY == l.pos.y - EPos(w, target).y
        IN IF relX < l.radius + w.entities[target].radius /\ relY > 0 /\ relY < l.length
           THEN IF Kind(w, target) = "ENEMY"
                \* (laser as any).damage || 10
                THEN LET dmg == IF l.damage = 0 THEN 10 * Milli ELSE l.damage
                         w1 == LogBeam(Hurt(Blame(w, laser), target, dmg), l, target, dmg)
                         w2 == spawnFloatingText(w1, ToString(Ceil(dmg)), EPos(w1, target))
                     IN IF w2.entities[target].health <= 0
                        THEN killEnemy(w2, target, env) ELSE w2
                ELSE handleCollision(w, ai, bi, env)
           ELSE w
    ELSE IF a.kind = "WEAPON_MISSILE" \/ b.kind = "WEAPON_MISSILE" THEN
        LET missile == IF a.kind = "WEAPON_MISSILE" THEN ai ELSE bi
            target == IF a.kind = "WEAPON_MISSILE" THEN bi ELSE ai
        IN IF DistLess(pa, pb, w.entities[missile].radius + w.entities[target].radius)
              /\ Kind(w, target) = "ENEMY"
           THEN LET dmg == w.entities[missile].damage
                    w1 == LogHit(Hurt(Blame([w EXCEPT
                                                !.entities[missile].markedForDeletion = TRUE],
                                            missile),
                                      target, dmg),
                                 missile, target)
                    w2 == spawnFloatingText(w1, ToString(Ceil(dmg)), EPos(w1, target))
                IN IF w2.entities[target].health <= 0
                   THEN killEnemy(w2, target, env) ELSE w2
           ELSE w
    ELSE IF DistLess(pa, pb, a.radius + b.radius) THEN handleCollision(w, ai, bi, env)
    ELSE w

\* the pair test of the inner loop, with the observation of late tests
PairTest(w, ai, bi, env) ==
    PairRule(IF EMarked(w, ai)
             THEN [w EXCEPT !.trace.lateTests =
                                @ \cup {<<w.entities[ai].id, w.entities[bi].id>>}]
             ELSE w,
             ai, bi, env)

\* lines 493-638: for (j = i + 1; j < this.entities.length; j++)
RECURSIVE InnerLoop(_, _, _, _)
InnerLoop(w, i, j, env) ==
    IF j > Len(w.entities) THEN w
    ELSE IF EMarked(w, j) THEN InnerLoop(w, i, j + 1, env)
    ELSE InnerLoop(PairTest(w, i, j, env), i, j + 1, env)

\* lines 489-639: for (i = 0; i < this.entities.length; i++)
RECURSIVE OuterLoop(_, _, _)
OuterLoop(w, i, env) ==
    IF i > Len(w.entities) THEN w
    ELSE IF EMarked(w, i) THEN OuterLoop(w, i + 1, env)
    ELSE OuterLoop(InnerLoop(w, i, i + 1, env), i + 1, env)

checkCollisions(w, env) == OuterLoop(w, 1, env)

----------------------------------------------------------------------------
(* sweep, game over, update and loop                                        *)

\* the sweep below without its filter
SweepKeepsAll(w) ==
    [w EXCEPT !.trace.pre = UsedIds(w.entities),
              !.trace.marked = {w.entities[i].id : i \in {j \in Indices(w) : EMarked(w, j)}}]

\* line 436: this.entities = this.entities.filter(e => !e.markedForDeletion);
\* a missile keeps its reference to a swept enemy, whose markedForDeletion is true
Sweep(w) ==
    LET keep == SelectSeq([i \in Indices(w) |-> [e |-> w.entities[i], m |-> EMarked(w, i)]],
                          LAMBDA r : ~r.m)
        kept == [i \in 1..Len(keep) |-> keep[i].e]
        ids == UsedIds(kept)
    IN [w EXCEPT !.entities =
            [i \in 1..Len(kept) |->
                IF kept[i].target # NoTarget /\ kept[i].target \notin ids
                THEN [kept[i] EXCEPT !.target = DeadTarget] ELSE kept[i]],
                 !.trace.pre = UsedIds(w.entities),
                 !.trace.marked = {w.entities[i].id : i \in {j \in Indices(w) : EMarked(w, j)}}]

\* the end of the game below, reporting twice
GameOverTwice(w) ==
    IF w.player.present /\ w.player.markedForDeletion
    THEN [w EXCEPT !.state = "GAME_OVER", !.ui.gameOver = Append(Append(@, w.score), w.score)]
    ELSE w

\* lines 439-442
GameOver(w) ==
    IF w.player.present /\ w.player.markedForDeletion
    THEN [w EXCEPT !.state = "GAME_OVER", !.ui.gameOver = Append(@, w.score)]
    ELSE w

\* lines 183-310: update(dt) up to the per-entity pass
Inputs(w, dt, env) ==
    IF dt = 0 THEN w ELSE PlayerInput(Schedule(w, dt, env), dt, env)

\* update(dt)
update(w, dt, env) ==
    IF dt = 0 THEN w
    ELSE LET w1 == Inputs(w, dt, env)
             w2 == EntityPass(w1, 1, Len(w1.entities), dt, env)
         IN GameOver(Sweep(checkCollisions(w2, env)))

\* lines 166-174: the dt handed to update
FrameDt(w, env) == IF w.hitStopTimer > 0 THEN 0 ELSE Min(env.elapsed, MaxFrameDt)

\* the loop below without its hit-stop
loopWithoutHitStop(w, env) ==
    IF w.state # "PLAYING" THEN [w EXCEPT !.rafPending = @ - 1]
    ELSE LET dt == Min(env.elapsed, MaxFrameDt)
         IN update([w EXCEPT !.player.sinceShot = Min(ShotCap, @ + Max(0, env.elapsed)),
                             !.trace.dt = dt],
                   dt, env)

\* loop(timestamp): env.elapsed = timestamp - lastTime, in ms
\* performance.now() never runs backwards, whatever the frame's timestamp
loop(w, env) ==
    IF w.state # "PLAYING" THEN [w EXCEPT !.rafPending = @ - 1]
    ELSE LET dt == Min(env.elapsed, MaxFrameDt)
             w1 == [w EXCEPT !.player.sinceShot = Min(ShotCap, @ + Max(0, env.elapsed))]
         IN IF w1.hitStopTimer > 0
            THEN update([w1 EXCEPT !.hitStopTimer = @ - dt, !.trace.dt = 0], 0, env)
            ELSE update([w1 EXCEPT !.trace.dt = dt], dt, env)

----------------------------------------------------------------------------
(* Inputs of a frame                                                        *)

\* elapsed:   timestamp - lastTime of the animation frame, in ms
\* fire:      isMouseDown || keys[' ']
\* keys:      the single presses pending among q (0), 1, 2, 3
\* movers,to: the kinds of entity whose integration reaches the point to
\* etype, fireDelay, drop, itemType: the draws of Math.random() in the Enemy
\*            constructor, dropItem and the Item constructor
\* steer:     the sign of the clamped PID output of a guided missile
IdleEnv == [elapsed |-> 100, fire |-> FALSE, keys |-> {}, movers |-> {}, to |-> PStart,
            etype |-> "ENEMY_KAMIKAZE", fireDelay |-> 0, drop |-> FALSE,
            itemType |-> "HEALTH", steer |-> 0]

----------------------------------------------------------------------------
(* Actions                                                                  *)

Op(name, index, env) == [op |-> name, index |-> index, env |-> env]

Init ==
    /\ state = "MENU"
    /\ player = NullPlayer
    /\ entities = << >>
    /\ score = 0
    /\ difficultyMultiplier = Milli
    /\ settings \in {"EASY", "NORMAL", "HARD"}
    /\ spawnTimer = 0
    /\ bossActive = FALSE
    /\ bossNextSpawnScore = 2000
    /\ shakeTimer = 0
    /\ shakeIntensity = 0
    /\ hitStopTimer = 0
    /\ rafPending = 0
    /\ ui = [score |-> 0, health |-> 0, weapon |-> "VULCAN", gameOver |-> << >>]
    /\ texts = << >>
    /\ trace = NoTrace
    /\ size = Canvas
    /\ lastOp = Op("new", 0, IdleEnv)
    /\ ticks = 0

\* start(), called by the canvas component when the game is not PLAYING
start(w) ==
    [w EXCEPT !.entities = <<PlayerStub>>,
              !.player = [NewPlayer EXCEPT
                             !.pos = Pt(w.size.width \div 2, w.size.height - 100)],
              !.ui = [score |-> 0, health |-> 100 * Milli, weapon |-> "VULCAN",
                      gameOver |-> << >>],
              !.score = 0,
              !.difficultyMultiplier = Milli,
              !.bossActive = FALSE,
              !.bossNextSpawnScore = 3000,
              !.state = "PLAYING",
              !.trace.weapon = Append(@, "VULCAN"),
              !.rafPending = @ + 1]

Start ==
    /\ state # "PLAYING"
    /\ Commit(start(World))
    /\ lastOp' = Op("start", 0, IdleEnv)
    /\ ticks' = 0

TriggerSkill(index) ==
    /\ Commit(triggerSkill(World, index))
    /\ lastOp' = Op("triggerSkill", index, IdleEnv)
    /\ UNCHANGED ticks

\* resize(width, height), called by the canvas component when the window is resized
resize(w, width, height) == [w EXCEPT !.size = [width |-> width, height |-> height]]

Resize(width, height) ==
    /\ Commit(resize(World, width, height))
    /\ lastOp' = Op("resize", 0, IdleEnv)
    /\ UNCHANGED ticks

TriggerWeaponSwitch ==
    /\ Commit(triggerWeaponSwitch(World))
    /\ lastOp' = Op("triggerWeaponSwitch", 0, IdleEnv)
    /\ UNCHANGED ticks

\* this.player && !this.player.markedForDeletion
Live == player.present /\ ~player.markedForDeletion

\* One animation-frame callback: loop(timestamp) with the inputs env
Tick(env) ==
    /\ rafPending > 0
    /\ Len(Inputs(World, FrameDt(World, env), env).entities) <= MaxEntities + 1
    /\ \E w \in {loop(World, env)} :
          /\ Len(w.entities) <= MaxEntities + 1
          /\ Commit(w)
    /\ lastOp' = Op("loop", 0, env)

\* a frame of a bounded run: at most cap frames after a start()
Frame(envs, cap) ==
    /\ ticks < cap
    /\ \E env \in envs : Tick(env)
    /\ ticks' = ticks + 1

----------------------------------------------------------------------------
(* Abilities: the player idles while the abilities are triggered            *)

SkillTicks == 6

SkillNext ==
    \/ Start
    \/ \E index \in 0..4 : TriggerSkill(index)
    \/ Frame({IdleEnv}, SkillTicks)

SkillSpec == Init /\ [][SkillNext]_vars

\* The shield and the gravity well, over the 4 s in which mana regenerates by 20
WellTicks == 41

InitNormal == Init /\ settings = "NORMAL"

WellNext ==
    \/ Start
    \/ \E index \in 1..2 : TriggerSkill(index)
    \/ Frame({IdleEnv}, WellTicks)

WellSpec == InitNormal /\ [][WellNext]_vars

----------------------------------------------------------------------------
(* Combat: the player idles until the first enemy is due, then fires while  *)
(* bullets, enemies and items move                                          *)

QuietTicks == 17
CombatTicks == 22

CombatEnvs ==
    {[IdleEnv EXCEPT !.fire = f, !.keys = k, !.etype = ty] :
        f \in BOOLEAN, k \in {{}, {2}}, ty \in {"ENEMY_KAMIKAZE", "ENEMY_FAST"}}
    \cup
    {[IdleEnv EXCEPT !.movers = m, !.to = t, !.drop = d] :
        m \in {{"BULLET_PLAYER"}, {"ENEMY"}, {"BULLET_ENEMY"}},
        t \in {PNear, PMid, PTop}, d \in BOOLEAN}

CombatNext ==
    \/ Start
    \/ Frame(IF ticks < QuietTicks THEN {IdleEnv} ELSE CombatEnvs, CombatTicks)

CombatSpec == InitNormal /\ [][CombatNext]_vars

----------------------------------------------------------------------------
(* The charge weapon: the player switches weapons and holds or releases the *)
(* fire input                                                               *)

LaserTicks == 12

LaserEnvs == {[IdleEnv EXCEPT !.fire = f] : f \in BOOLEAN}

LaserNext ==
    \/ Start
    \/ TriggerWeaponSwitch
    \/ Frame(LaserEnvs, LaserTicks)

LaserSpec == InitNormal /\ [][LaserNext]_vars
----------------------------------------------------------------------------
(* Missiles: the player selects the missile weapon and fires one missile at *)
(* a time; the frames go on for ever, every enemy leaves the playfield in   *)
(* the frame it is spawned in, and a missile stays where it is or leaves    *)
(* the playfield                                                            *)

MissilesInFlight == {entities[i].id : i \in {j \in 1..Len(entities) :
                                                entities[j].kind = "WEAPON_MISSILE"}}

MissileEnvs ==
    {[IdleEnv EXCEPT !.fire = f, !.movers = m, !.to = POff, !.steer = st] :
        f \in IF player.currentWeapon = "PLASMA" /\ MissilesInFlight = {}
              THEN BOOLEAN ELSE {FALSE},
        m \in {{"ENEMY"}, {"ENEMY", "WEAPON_MISSILE"}},
        st \in {0, 1}}

\* the player steps from the first weapon to the missile weapon
SelectMissiles ==
    /\ Live
    /\ player.currentWeapon = "VULCAN"
    /\ TriggerWeaponSwitch

\* a frame of an unbounded run: the frames are not counted
MissileFrame ==
    /\ \E env \in MissileEnvs : Tick(env)
    /\ UNCHANGED ticks

MissileNext ==
    \/ Start
    \/ SelectMissiles
    \/ MissileFrame

\* The browser runs every animation frame the loop has requested: weak
\* fairness of the frame, with its enabling condition written out (a frame
\* can run exactly when a callback is pending; FramesCanRun keeps the bound on
\* the collection out of the way)
FrameFairness == []<>(rafPending = 0) \/ []<><<MissileFrame>>_vars

FramesCanRun == Len(entities) <= MaxEntities - 1

MissileSpec == InitNormal /\ [][MissileNext]_vars /\ FrameFairness

----------------------------------------------------------------------------
(* Scoring: at each difficulty setting the player idles until the first     *)
(* enemy is due, then enemies arrive and ram the player                     *)

ScoreTicks == 22

ScoreEnvs ==
    {[IdleEnv EXCEPT !.movers = m, !.to = t, !.etype = ty] :
        m \in {{}, {"ENEMY"}}, t \in {PNear, PMid},
        ty \in {"ENEMY_KAMIKAZE", "ENEMY_FAST"}}

ScoreNext ==
    \/ Start
    \/ Frame(IF ticks < QuietTicks - 1 THEN {IdleEnv} ELSE ScoreEnvs, ScoreTicks)

ScoreSpec == Init /\ [][ScoreNext]_vars

----------------------------------------------------------------------------
(* Late game: a NORMAL game resumed after kills basic enemies were shot     *)
(* (100 points and 50 xp each) and hits contacts were taken since the last  *)
(* level-up, with the next enemy due in the first frame; the shield is      *)
(* raised, enemies and their bullets reach the player                       *)

\* the player after kills calls of gainXp(50)
RECURSIVE AfterKills(_, _)
AfterKills(p, kills) == IF kills = 0 THEN p ELSE gainXp(AfterKills(p, kills - 1), 50)

LateKills == {19, 29, 30}
LateHits == {5, 9}
LateTicks == 5

\* a game of difficulty d in progress between two frames: kills enemies of
\* type etype were shot, then hits contacts were taken, the enemies es are in
\* the collection and timer is the time since the last spawn
MidGame(d, kills, etype, hits, es, timer) ==
    LET p == AfterKills(NewPlayer, kills)
        h == p.maxHealth - hits * 10 * Milli
    IN /\ state = "PLAYING"
       /\ player = [p EXCEPT !.health = h]
       /\ entities = <<PlayerStub>> \o es
       /\ score = kills * ScoreValue(etype)
       /\ difficultyMultiplier = Multiplier(d, score)
       /\ settings = d
       /\ spawnTimer = timer
       /\ bossActive = (es # << >>)
       /\ bossNextSpawnScore = 3000
       /\ shakeTimer = 0
       /\ shakeIntensity = 0
       /\ hitStopTimer = 0
       /\ rafPending = 1
       /\ ui = [score |-> score, health |-> h, weapon |-> "VULCAN", gameOver |-> << >>]
       /\ texts = << >>
       /\ trace = NoTrace
       /\ size = Canvas
       /\ lastOp = Op("loop", 0, IdleEnv)
       /\ ticks = 0

LateInit ==
    \E kills \in LateKills, hits \in LateHits :
        MidGame("NORMAL", kills, "ENEMY_BASIC", hits, << >>, 1600)

LateEnvs ==
    {[IdleEnv EXCEPT !.etype = ty, !.fireDelay = fd] :
        ty \in {"ENEMY_KAMIKAZE", "ENEMY_FAST"}, fd \in {0, 700}}
    \cup
    {[IdleEnv EXCEPT !.movers = m, !.to = PNear, !.fireDelay = 700] :
        m \in {{"ENEMY"}, {"BULLET_ENEMY"}}}

LateNext ==
    \/ Start
    \/ TriggerSkill(1)
    \/ state = "GAME_OVER" /\ \E index \in 2..3 : TriggerSkill(index)
    \/ state = "GAME_OVER" /\ TriggerWeaponSwitch
    \/ Frame(LateEnvs, LateTicks)

LateSpec == LateInit /\ [][LateNext]_vars

----------------------------------------------------------------------------
(* Boss fight: four tanks were shot (3200 points), the boss of the first    *)
(* threshold has come down and is nearly destroyed; the player, unhurt or   *)
(* hit three times, fires                                                   *)

BossTicks == 6

\* the boss spawned at 3200 points, after its descent and all but one hit
WornBoss(d) ==
    [Enemy(PTop, Multiplier(d, 3200), TRUE, "ENEMY_BOSS", 700) EXCEPT
        !.id = 1, !.health = 20 * Milli]

BossHits == {0, 3}

BossInit ==
    \E d \in {"EASY", "NORMAL", "HARD"}, hits \in BossHits :
        MidGame(d, 4, "ENEMY_TANK", hits, <<WornBoss(d)>>, 0)

BossEnvs ==
    {[IdleEnv EXCEPT !.fire = f] : f \in BOOLEAN}
    \cup
    {[IdleEnv EXCEPT !.movers = {"BULLET_PLAYER"}, !.to = t] : t \in {PMid, PTop}}

BossNext == Frame(BossEnvs, BossTicks)

BossSpec == BossInit /\ [][BossNext]_vars

----------------------------------------------------------------------------
(* Frame timing: the timestamps of the animation frames vary. start() reads *)
(* performance.now(), while the first callback receives the time at which   *)
(* its frame began, which is earlier when start() runs inside that frame    *)

TimeTicks == 5

\* timestamp - lastTime, in ms, of the frame after ticks frames
Elapsed(n) == IF n = 0 THEN {-5, 16, 250} ELSE {0, 16, 100, 250}

TimeEnvs(n) == {[IdleEnv EXCEPT !.elapsed = ms] : ms \in Elapsed(n)}

TimeNext ==
    \/ Start
    \/ Frame(TimeEnvs(ticks), TimeTicks)

TimeSpec == Init /\ [][TimeNext]_vars

----------------------------------------------------------------------------
(* Hit-stop: in a resumed NORMAL game the first frame brings an enemy onto  *)
(* the player; the frames that follow come at 16, 100 or 250 ms, with the   *)
(* fire button held or not and the enemies moving or not                    *)

FreezeTicks == 6

FreezeInit == MidGame("NORMAL", 19, "ENEMY_BASIC", 5, << >>, 1600)

FreezeEnvs(n) ==
    IF n = 0
    THEN {[IdleEnv EXCEPT !.movers = {"ENEMY"}, !.to = PNear, !.etype = ty] :
             ty \in {"ENEMY_KAMIKAZE", "ENEMY_FAST"}}
    ELSE {[IdleEnv EXCEPT !.elapsed = ms, !.fire = f, !.movers = m, !.to = PMid] :
             ms \in {16, 100, 250}, f \in BOOLEAN, m \in {{}, {"ENEMY"}}}

FreezeNext == Frame(FreezeEnvs(ticks), FreezeTicks)

FreezeSpec == FreezeInit /\ [][FreezeNext]_vars

----------------------------------------------------------------------------
(* Two enemies: a NORMAL game in which the player may select the missiles   *)
(* and fires once just before the first enemy arrives; the projectile is    *)
(* still in flight when the second enemy has arrived, and then enemies and  *)
(* projectiles may meet                                                     *)

FireTick == 16
MeetTick == 35
PierceTicks == 37

PierceEnvs(n) ==
    IF n < MeetTick
    THEN {[IdleEnv EXCEPT !.fire = f] : f \in {FALSE, n = FireTick}}
    ELSE {[IdleEnv EXCEPT !.movers = m, !.to = PMid] :
             m \in {{}, {"ENEMY"}, {"ENEMY", "WEAPON_MISSILE"}, {"ENEMY", "BULLET_PLAYER"}}}

PierceNext ==
    \/ Start
    \/ ticks = 0 /\ SelectMissiles
    \/ Frame(PierceEnvs(ticks), PierceTicks)

PierceSpec == InitNormal /\ [][PierceNext]_vars

----------------------------------------------------------------------------
(* Properties of the abilities                                              *)

SkillName(index) == CASE index = 1 -> "shield"
                      [] index = 2 -> "blackhole"
                      [] index = 3 -> "shockwave"

SkillCost(index) == CASE index = 1 -> ShieldCost * Milli
                      [] index = 2 -> BlackHoleCost * Milli
                      [] index = 3 -> ShockwaveCost * Milli

EffectKind(index) == CASE index = 1 -> "SKILL_SHIELD"
                       [] index = 2 -> "SKILL_BLACKHOLE"
                       [] index = 3 -> "SKILL_SHOCKWAVE"

Cooldown(p, index) == p.skills[SkillName(index)].current
CooldownMax(p, index) == p.skills[SkillName(index)].max

CountKind(es, kind) == Cardinality({i \in 1..Len(es) : es[i].kind = kind})

\* the step is the call triggerSkill(index)
Triggering(index) == lastOp'.op = "triggerSkill" /\ lastOp'.index = index

\* the call changed something the player or the screen can observe
TookEffect ==
    \/ player' # player
    \/ entities' # entities
    \/ shakeTimer' # shakeTimer
    \/ shakeIntensity' # shakeIntensity

\* the call paid for the ability, started its cooldown and added its entity
Paid(index) ==
    /\ player'.mana = player.mana - SkillCost(index)
    /\ Cooldown(player', index) = CooldownMax(player, index)
    /\ Len(entities') = Len(entities) + 1
    /\ SubSeq(entities', 1, Len(entities)) = entities
    /\ entities'[Len(entities')].kind = EffectKind(index)
    /\ CountKind(entities', EffectKind(index)) = CountKind(entities, EffectKind(index)) + 1

\* C1: with a live player, triggerSkill(i) for i in 1..3 takes effect exactly
\* when the ability's cooldown is at most 0 and the mana is at least its cost;
\* when it does, the mana drops by the cost, the cooldown is set to its maximum
\* and exactly one entity of the ability's kind is added to the collection.
C1_TriggerGate ==
    [][\A index \in 1..3 :
         (Triggering(index) /\ Live) =>
            LET ready == Cooldown(player, index) <= 0 /\ player.mana >= SkillCost(index)
            IN /\ ready <=> TookEffect
               /\ ready => Paid(index)]_vars

\* a gravity well has just been triggered successfully
C1_Witness ==
    /\ lastOp.op = "triggerSkill" /\ lastOp.index = 2
    /\ Len(texts) = 1 /\ texts[1].text = "SINGULARITY!"
    /\ entities[Len(entities)].kind = "SKILL_BLACKHOLE"
    /\ player.mana = 40 * Milli

\* the call triggerSkill(index) is one the engine must reject
Rejected(index) ==
    \/ index \notin 1..3
    \/ ~Live
    \/ Cooldown(player, index) > 0
    \/ player.mana < SkillCost(index)

\* C2: a rejected trigger (mana below the cost, cooldown above 0, an index
\* outside 1..3, or no live player) changes nothing: the player's mana, the
\* three cooldowns, the shield's active flag and timer, the entity collection
\* and the shake state are what they were before the call.
C2_RejectedIsNoOp ==
    [][\A index \in 0..4 :
         (Triggering(index) /\ Rejected(index)) =>
            /\ player' = player
            /\ entities' = entities
            /\ shakeTimer' = shakeTimer
            /\ shakeIntensity' = shakeIntensity]_vars

\* the shield was triggered while it was cooling down, with mana to spare
C2_Witness ==
    /\ lastOp.op = "triggerSkill" /\ lastOp.index = 1
    /\ Live
    /\ player.skills.shield.current > 0
    /\ player.mana >= ShieldCost * Milli
    /\ texts = << >>

\* C3: a gravity well triggered with mana 80 and its cooldown at 0 succeeds
\* with a cost of 70: the mana becomes 10, the cooldown its maximum, and one
\* BlackHole is added.
C3_WellCosts70 ==
    [][(/\ Triggering(2)
        /\ Live
        /\ player.mana = 80 * Milli
        /\ player.skills.blackhole.current = 0)
       => (/\ player'.mana = 10 * Milli
           /\ player'.skills.blackhole.current = player.skills.blackhole.max
           /\ CountKind(entities', "SKILL_BLACKHOLE")
                = CountKind(entities, "SKILL_BLACKHOLE") + 1)]_vars
----------------------------------------------------------------------------
(* Properties of damage, healing and the collision pass                     *)

\* C4: health never goes below 0: every damage application, to the player or
\* to an enemy, leaves max(0, health - damage).
C4_HealthClamped ==
    /\ \A r \in trace.damage : r.after = Max(0, r.before - r.dmg)
    /\ player.health >= 0
    /\ \A i \in 1..Len(entities) : entities[i].health >= 0

C6_NoTestAfterMark == trace.lateTests = {}

\* the frame ran update() to its sweep
Swept == lastOp'.op = "loop" /\ trace'.pre # {}

\* C7: after the sweep of a frame no entity marked for removal is left in the
\* collection (so neither the next frame nor draw sees one), and entities
\* leave the collection only in the sweep: every entity of the collection is
\* still in it when the sweep starts, and the sweep removes exactly the
\* marked ones.
C7_SweptClean ==
    /\ [](\A i \in 1..Len(entities) : ~EMarked(World, i))
    /\ [][Swept => /\ UsedIds(entities) \subseteq trace'.pre
                   /\ UsedIds(entities') = trace'.pre \ trace'.marked]_vars
    /\ [][lastOp'.op # "start" =>
            \A id \in UsedIds(entities) :
                id \in UsedIds(entities') \/ (Swept /\ id \in trace'.marked)]_vars

\* a sweep has just removed marked entities, and entities remain
C7_Witness ==
    /\ lastOp.op = "loop"
    /\ trace.marked # {}
    /\ trace.marked \subseteq trace.pre
    /\ UsedIds(entities) = trace.pre \ trace.marked
    /\ Len(entities) > 1

\* C8: the resolution of a pair does not depend on which of the two comes
\* first in the collection: the contact decision and the effects are the same
\* in both orders, category exclusions included.
C8_PairOrderSymmetric ==
    \A i, j \in 1..Len(entities) :
        i < j => PairRule(World, i, j, IdleEnv) = PairRule(World, j, i, IdleEnv)
----------------------------------------------------------------------------
(* Properties of the charge weapon                                          *)

\* C9: with the LASER weapon, a Laser is created only in a frame in which the
\* fire input is released while the player was charging with the charge at
\* 100; a release below 100 creates none; creating one resets the charge to 0.
C9_LaserOnFullCharge ==
    [][CountKind(entities', "WEAPON_LASER") > CountKind(entities, "WEAPON_LASER") =>
          /\ lastOp'.op = "loop"
          /\ ~lastOp'.env.fire
          /\ player.currentWeapon = "LASER"
          /\ player.isCharging
          /\ player.chargeLevel >= 100 * Milli
          /\ player'.chargeLevel = 0
          /\ ~player'.isCharging]_vars

\* the frame released a full charge: its Laser has had its first update
C9_Witness ==
    /\ lastOp.op = "loop" /\ ~lastOp.env.fire
    /\ player.currentWeapon = "LASER"
    /\ player.chargeLevel = 0
    /\ \E i \in 1..Len(entities) :
          /\ entities[i].kind = "WEAPON_LASER"
          /\ entities[i].phase = "CHARGING"
          /\ entities[i].timer = 100
----------------------------------------------------------------------------
(* Properties of the missiles                                               *)

MissileAt(es, id) ==
    {i \in 1..Len(es) : es[i].kind = "WEAPON_MISSILE" /\ es[i].id = id}

----------------------------------------------------------------------------
(* Properties of the difficulty, the bosses and the end of the game         *)

\* a frame whose update ran with dt > 0
Simulated == lastOp'.op = "loop" /\ trace'.pre # {}

ScoreSamples == 12
SampleScores == {100 * k : k \in 0..ScoreSamples}

\* C11: the difficulty multiplier computed by a tick is base + score / 5000
\* for the score at the start of the tick, with base 0.5, 1 and 1.5 for
\* EASY, NORMAL and HARD, and for a fixed difficulty it never falls as the
\* score grows.
C11_Multiplier ==
    /\ [][Simulated =>
            difficultyMultiplier' =
                (CASE settings = "EASY" -> 500
                   [] settings = "NORMAL" -> 1000
                   [] settings = "HARD" -> 1500) + (1000 * score) \div 5000]_vars
    /\ [](\A s1, s2 \in SampleScores \cup {score} :
            s1 < s2 => Multiplier(settings, s1) <= Multiplier(settings, s2))

\* a tick has computed the multiplier of a HARD game from a positive score
C11_Witness ==
    /\ lastOp.op = "loop"
    /\ settings = "HARD"
    /\ difficultyMultiplier > 1500

\* the contacts of the player that the last frame resolved with the shield down
OpenContacts == {c \in trace.contacts : ~c.shield}

Minus10(c) == \E k \in 1..Len(c.said) : c.said[k] = [text |-> "-10", pos |-> c.at]

\* C12 as stated: a contact of the unshielded player with an enemy bullet or
\* an Enemy lowers the player's health by exactly 10, adds the FloatingText
\* "-10" at the player's position and marks a contacting enemy bullet.
C12_ContactCosts10 ==
    \A c \in OpenContacts :
        /\ c.after = c.before - 10 * Milli
        /\ Minus10(c)
        /\ (c.kind = "BULLET_ENEMY" => c.marked)

\* C12, amended: the 10 are taken from the player's health as it is when the
\* contact damage is applied, which is maxHealth when the rammed Enemy died of
\* the contact and its kill levelled the player up, and the health before the
\* contact otherwise; the FloatingText "-10" is added at the player's position
\* and a contacting enemy bullet is marked.
C12_ContactCosts10AfterLevelUp ==
    \A c \in OpenContacts :
        /\ c.after = (IF c.levelled THEN player.maxHealth ELSE c.before) - 10 * Milli
        /\ Minus10(c)
        /\ (c.kind = "BULLET_ENEMY" => c.marked)

\* one frame resolved a contact with an enemy bullet and a contact with an
\* Enemy, both with the shield down
C12_Witness ==
    /\ \E c \in OpenContacts : c.kind = "BULLET_ENEMY" /\ c.after = c.before - 10 * Milli
    /\ \E c \in OpenContacts : c.kind = "ENEMY"

\* the indices of the boss Enemies of a collection
Bosses(es) == {i \in 1..Len(es) : es[i].kind = "ENEMY" /\ es[i].isBoss}

C14_BossKilled ==
    /\ [][Simulated /\ Bosses(entities) # {} /\ Bosses(entities') = {} =>
            /\ ~bossActive'
            /\ score' >= score + 20000
            /\ bossNextSpawnScore' \in {s + 5000 : s \in (score + 20000)..score'}]_vars
    /\ [][score <= bossNextSpawnScore =>
            Cardinality(Bosses(entities')) <= Cardinality(Bosses(entities))]_vars
    /\ [](bossNextSpawnScore > 3000 =>
            score <= bossNextSpawnScore /\ Bosses(entities) = {} /\ ~bossActive)

\* the boss has been killed and later ticks have run without a boss
C14_Witness ==
    /\ bossNextSpawnScore = 3200 + 20000 + 5000
    /\ score = 3200 + 20000
    /\ ~bossActive
    /\ lastOp.op = "loop"
    /\ trace.pre # {}
    /\ trace.marked = {}

\* the enemy bullets of the collection that the next frame's inputs bring
\* within reach of the shield (50 + 7 px of the player)
BulletsAtShield ==
    {entities[i].id : i \in {j \in 1..Len(entities) :
        /\ entities[j].kind = "BULLET_ENEMY"
        /\ "BULLET_ENEMY" \in lastOp'.env.movers
        /\ DistLess(lastOp'.env.to, player'.pos, 50 + entities[j].radius)}}

\* C15: in a tick whose collisions are resolved with the shield active, no
\* contact lowers the player's health, and the enemy bullets that reach the
\* shield are marked and swept although they do no damage.
C15_ShieldBlocks ==
    [][Simulated /\ player'.skills.shield.active =>
          /\ player'.health >= player.health
          /\ \A d \in trace'.damage : d.id # 0
          /\ \A c \in trace'.contacts : c.after = c.before
          /\ BulletsAtShield \subseteq trace'.marked]_vars

\* with the shield up and an Enemy touching the player, an enemy bullet has
\* been consumed and the player's health is what it was when play resumed
C15_Witness ==
    /\ lastOp.op = "loop"
    /\ player.skills.shield.active
    /\ "BULLET_ENEMY" \in lastOp.env.movers
    /\ trace.marked # {}
    /\ \E i \in 1..Len(entities) : entities[i].kind = "ENEMY" /\ entities[i].pos = PNear
    /\ player.health \in {player.maxHealth - hits * 10 * Milli : hits \in LateHits}
    /\ ui.health = player.health

\* the frame that removes the player from the collection
PlayerRemoved ==
    /\ lastOp'.op = "loop"
    /\ 0 \in UsedIds(entities)
    /\ 0 \notin UsedIds(entities')

\* C16: the game-over callback is invoked once per started game, by the tick
\* that removes the player and with the score of that tick; from then until
\* the next start() no frame, triggerSkill or triggerWeaponSwitch changes the
\* player, the score or what was reported.
C16_GameOverTerminal ==
    /\ [](Len(ui.gameOver) <= 1)
    /\ [](state = "GAME_OVER" <=> Len(ui.gameOver) = 1)
    /\ [][PlayerRemoved => state' = "GAME_OVER" /\ ui'.gameOver = <<score'>>]_vars
    /\ [][ui'.gameOver # ui.gameOver => PlayerRemoved \/ lastOp'.op = "start"]_vars
    /\ [][state = "GAME_OVER" /\ lastOp'.op # "start" =>
            /\ player' = player
            /\ score' = score
            /\ entities' = entities
            /\ ui' = ui
            /\ state' = "GAME_OVER"]_vars

\* the game is over and an ability, a weapon switch and a frame were tried
C16_Witness ==
    /\ state = "GAME_OVER"
    /\ ui.gameOver = <<score>>
    /\ player.markedForDeletion
    /\ lastOp.op = "triggerWeaponSwitch"
    /\ rafPending = 0

\* C17: whatever the timestamp of an animation frame, the dt handed to update
\* lies in [0, 0.1] s, and it is min(timestamp - lastTimestamp, 0.1 s) when
\* no hit-stop is pending.
C17_DtInRange ==
    [][lastOp'.op = "loop" /\ state = "PLAYING" =>
          /\ trace'.dt >= 0
          /\ trace'.dt <= 100
          /\ (hitStopTimer <= 0 =>
                trace'.dt = IF lastOp'.env.elapsed <= 100 THEN lastOp'.env.elapsed ELSE 100)]_vars

\* C18: a frame that finds the hit-stop timer positive takes the frame's dt,
\* the elapsed time up to 0.1 s, off the timer and hands update dt = 0: the
\* entities, the player, the score, the spawn and shake timers, the
\* difficulty, the boss state and the reported values stay as they were, and
\* nothing is added to the collection.
C18_HitStopFreezes ==
    [][lastOp'.op = "loop" /\ state = "PLAYING" /\ hitStopTimer > 0 =>
          /\ hitStopTimer' = hitStopTimer - (IF lastOp'.env.elapsed <= 100
                                             THEN lastOp'.env.elapsed ELSE 100)
          /\ trace'.dt = 0
          /\ entities' = entities
          /\ player' = [player EXCEPT !.sinceShot = player'.sinceShot]
          /\ texts' = << >>
          /\ UNCHANGED <<state, score, difficultyMultiplier, settings, spawnTimer,
                         bossActive, bossNextSpawnScore, shakeTimer, shakeIntensity,
                         rafPending, ui>>]_vars

\* a frozen frame, with the fire button held and an enemy told to move, has
\* left the hit-stop timer positive and the enemy on the player
C18_Witness ==
    /\ lastOp.op = "loop"
    /\ state = "PLAYING"
    /\ trace.pre = {}
    /\ hitStopTimer > 0
    /\ hitStopTimer < 50
    /\ lastOp.env.fire
    /\ "ENEMY" \in lastOp.env.movers
    /\ \E i \in 1..Len(entities) : entities[i].kind = "ENEMY" /\ entities[i].pos = PNear
    /\ CountKind(entities, "BULLET_PLAYER") = 0

\* C19: after every tick the value most recently passed to onHealthChange is
\* the player's health, whatever changed it: damage, a health pickup, a
\* black-hole absorption or the restore of a level-up.
C19_HealthReported == lastOp.op = "loop" => ui.health = player.health

\* C20: every damage applied by the collision resolver is echoed by a
\* FloatingText at the position of the damaged target, the 100 contact damage
\* of an Enemy that touches the player included.
C20_DamageEchoed ==
    lastOp.op = "loop" =>
        \A d \in trace.damage : \E k \in 1..Len(texts) : texts[k].pos = d.at

----------------------------------------------------------------------------
(* Properties of projectiles, passes, culling, lasers, spawning, missiles   *)

\* C21: a player bullet or a missile damages at most one Enemy: the hits of a
\* tick never pair one projectile with two enemies, and the projectile is
\* swept by the tick of its hit.
C21_NoPassThrough ==
    /\ \A h1, h2 \in trace.hits : h1[1] = h2[1] => h1[2] = h2[2]
    /\ \A h \in trace.hits : h[1] \in trace.marked

\* the indices of the enemies that the frame has added to the collection
Spawned == {i \in 1..Len(entities') :
               entities'[i].kind = "ENEMY" /\ entities'[i].id \notin UsedIds(entities)}

\* C22: the enemies and the boss are injected after the per-entity updates of
\* the tick: at the end of the tick in which it was spawned an enemy is as its
\* constructor made it, at its spawn point and with its fire timer not yet
\* advanced.
C22_SpawnAfterUpdate ==
    [][Simulated =>
          \A i \in Spawned :
              /\ entities'[i].pos \in {PTop, PBoss}
              /\ entities'[i].fireTimer =
                    Min(lastOp'.env.fireDelay, entities'[i].fireRate - 1)]_vars

----------------------------------------------------------------------------
(* Culling: abilities are in play while the window is resized                *)

CullTicks == 5

\* the sizes handed to resize(): the first canvas and a window half as high
WindowSizes == {[width |-> Width, height |-> h] : h \in {Height, Height \div 2}}

\* the player fires in the first frame only; later its bullets fly on
CullEnvs(n) ==
    IF n = 0 THEN {[IdleEnv EXCEPT !.fire = TRUE]}
    ELSE {IdleEnv, [IdleEnv EXCEPT !.movers = {"BULLET_PLAYER"}, !.to = PFar]}

CullNext ==
    \/ Start
    \/ \E index \in 1..3 : TriggerSkill(index)
    \/ \E sz \in WindowSizes : Resize(sz.width, sz.height)
    \/ Frame(CullEnvs(ticks), CullTicks)

CullSpec == InitNormal /\ [][CullNext]_vars

\* C23: of the entities that the culling test finds outside the inflated
\* playfield, the player and the ability entities (shield, shock wave, black
\* hole) are never marked for removal and every other entity is.
C23_CullSparesAbilities ==
    \A c \in trace.outside : c.marked <=> ~(c.kind = "PLAYER" \/ IsSkill(c.kind))

----------------------------------------------------------------------------
(* The beam: the player charges the laser for a second and releases it; an  *)
(* enemy enters the column of the beam while the beam runs through its      *)
(* phases                                                                   *)

ChargeTicks == 10
BeamTicks == 40

\* before the first frame the player steps to the laser
SelectLaser ==
    /\ Live
    /\ lastOp.op # "loop"
    /\ player.currentWeapon # "LASER"
    /\ TriggerWeaponSwitch

BeamEnvs(n) ==
    IF n < ChargeTicks THEN {[IdleEnv EXCEPT !.fire = TRUE]}
    ELSE {[IdleEnv EXCEPT !.fire = f, !.etype = t, !.fireDelay = 1800, !.movers = m,
                          !.to = PMid] :
             f \in {FALSE, n < ChargeTicks + 2}, t \in {"ENEMY_TANK", "ENEMY_KAMIKAZE"},
             m \in {{}, {"ENEMY"}}}

BeamNext ==
    \/ Start
    \/ SelectLaser
    \/ Frame(BeamEnvs(ticks), BeamTicks)

BeamSpec == InitNormal /\ [][BeamNext]_vars

\* C24: a Laser takes health from an enemy only in its FIRING and SUSTAINING
\* phases; in its CHARGING and DECAYING phases it takes none.
C24_NoDamageOutsideFiring ==
    \A b \in trace.beam : b.dmg > 0 => b.phase \in {"FIRING", "SUSTAINING"}

----------------------------------------------------------------------------
(* The beam for ever: the frames are not counted; with the laser selected   *)
(* the player holds or releases the fire input, frames with no elapsed time *)
(* occur, and every enemy leaves the playfield in the frame it is spawned   *)
(* in                                                                       *)

ForeverEnvs ==
    {[IdleEnv EXCEPT !.elapsed = el, !.fire = f, !.movers = {"ENEMY"}, !.to = POff] :
        el \in {0, 100}, f \in BOOLEAN}

ForeverFrame ==
    /\ player.currentWeapon = "LASER"
    /\ \E env \in ForeverEnvs : Tick(env)
    /\ UNCHANGED ticks

ForeverNext ==
    \/ Start
    \/ SelectLaser
    \/ ForeverFrame

\* frames with dt > 0 keep coming
SimulatedForever == []<><<ForeverFrame /\ trace'.dt > 0>>_vars

ForeverSpec == InitNormal /\ [][ForeverNext]_vars /\ SimulatedForever

Lasers(es) == {i \in 1..Len(es) : es[i].kind = "WEAPON_LASER"}

Rank(phase) == CASE phase = "CHARGING" -> 0
                 [] phase = "FIRING" -> 1
                 [] phase = "SUSTAINING" -> 2
                 [] phase = "DECAYING" -> 3

\* C25: from one frame to the next a Laser keeps its phase or enters the
\* following one, in the order CHARGING, FIRING, SUSTAINING, DECAYING; a new
\* Laser is CHARGING; a Laser leaves the collection only from DECAYING with
\* its timer run out, or when its owner is marked; and while frames with
\* dt > 0 keep coming, every Laser eventually leaves the collection.
C25_PhasesForward ==
    /\ [][lastOp'.op = "loop" =>
            /\ \A i \in Lasers(entities) : \A j \in Lasers(entities') :
                  Rank(entities'[j].phase) - Rank(entities[i].phase) \in {0, 1}
            /\ \A j \in Lasers(entities') :
                  Lasers(entities) = {} => entities'[j].phase = "CHARGING"
            /\ \A i \in Lasers(entities) :
                  Lasers(entities') = {} =>
                     \/ /\ entities[i].phase = "DECAYING"
                        /\ entities[i].timer + trace'.dt >= PhaseDuration("DECAYING")
                     \/ player.markedForDeletion]_vars
    /\ (Lasers(entities) # {}) ~> (Lasers(entities) = {})

\* a beam in its last phase
C25_Witness ==
    \E i \in Lasers(entities) : entities[i].phase = "DECAYING" /\ entities[i].timer = 300

----------------------------------------------------------------------------
(* The tally: the player idles until the first enemy is due, then fires;    *)
(* its bullets meet the enemy, or the enemy leaves the playfield            *)

TallyTicks == 22

TallyEnvs ==
    {[IdleEnv EXCEPT !.fire = f] : f \in BOOLEAN}
    \cup {[IdleEnv EXCEPT !.movers = m, !.to = t, !.drop = d] :
             m \in {{"BULLET_PLAYER"}, {"ENEMY"}}, t \in {PMid, POff}, d \in BOOLEAN}

TallyNext ==
    \/ Start
    \/ Frame(IF ticks < QuietTicks THEN {IdleEnv} ELSE TallyEnvs, TallyTicks)

TallySpec == InitNormal /\ [][TallyNext]_vars

\* the enemies that a damage of the last frame has brought to health <= 0
\* while they were not yet marked for removal
Slain(log) == {d.id : d \in {r \in log : r.id # 0 /\ r.after <= 0 /\ ~r.gone}}

Worth(log, id) == (CHOOSE r \in log : r.id = id).worth

RECURSIVE Total(_, _)
Total(log, ids) ==
    IF ids = {} THEN 0
    ELSE LET id == CHOOSE x \in ids : TRUE
         IN Worth(log, id) + Total(log, ids \ {id})

\* C26: in a frame the score rises by the score values of the enemies that
\* die in it, each counted once however many damages bring it to health <= 0,
\* and by nothing else (an enemy removed by the culling adds nothing); no
\* other operation changes the score, except that start() resets it.
C26_ScoreOncePerDeath ==
    [][/\ lastOp'.op = "loop" => score' = score + Total(trace'.damage, Slain(trace'.damage))
       /\ lastOp'.op = "start" => score' = 0
       /\ lastOp'.op \notin {"loop", "start"} => score' = score]_vars

\* two damages of one frame have brought the same enemy to health <= 0, the
\* second after the enemy had been counted
C26_Witness ==
    \E r1, r2 \in trace.damage :
        /\ r1.id = r2.id /\ r1.id # 0
        /\ r1.after <= 0 /\ ~r1.gone
        /\ r2.after <= 0 /\ r2.gone
        /\ ui.score = score /\ score > 0

----------------------------------------------------------------------------
(* Spawning: games resumed shortly before the next enemy is due: a new game *)
(* at each difficulty setting, a game with its first boss due or in play,   *)
(* and a game after three bosses, in which the spawn interval is at its     *)
(* floor;                                                                   *)
(* every enemy leaves the playfield in the frame it is spawned in           *)

SpawnTicks == 8

\* the player after 4, 7 and 7 tanks and the boss that followed each
Veteran ==
    gainXp(AfterKills(gainXp(AfterKills(gainXp(AfterKills(NewPlayer, 4), 2000), 7), 2000),
                      7), 2000)

\* the score after those kills
VeteranScore == 3 * ScoreValue("ENEMY_BOSS") + 18 * ScoreValue("ENEMY_TANK")

VeteranInit ==
    \E d \in {"EASY", "NORMAL", "HARD"} :
        /\ state = "PLAYING"
        /\ player = Veteran
        /\ entities = <<PlayerStub>>
        /\ score = VeteranScore
        /\ difficultyMultiplier = Multiplier(d, score)
        /\ settings = d
        /\ spawnTimer = 0
        /\ bossActive = FALSE
        /\ bossNextSpawnScore = NextBossScore([score |-> VeteranScore])
        /\ shakeTimer = 0
        /\ shakeIntensity = 0
        /\ hitStopTimer = 0
        /\ rafPending = 1
        /\ ui = [score |-> score, health |-> player.health, weapon |-> "VULCAN",
                 gameOver |-> << >>]
        /\ texts = << >>
        /\ trace = NoTrace
        /\ size = Canvas
        /\ lastOp = Op("loop", 0, IdleEnv)
        /\ ticks = 0

SpawnInit ==
    \/ \E d \in {"EASY", "NORMAL", "HARD"} : MidGame(d, 0, "ENEMY_BASIC", 0, << >>, 1500)
    \/ \E d \in {"EASY", "NORMAL", "HARD"} : MidGame(d, 4, "ENEMY_TANK", 0, << >>, 2400)
    \/ \E d \in {"EASY", "NORMAL", "HARD"} :
          MidGame(d, 4, "ENEMY_TANK", 0, <<WornBoss(d)>>, 2400)
    \/ VeteranInit

SpawnEnvs ==
    {[IdleEnv EXCEPT !.elapsed = el, !.etype = ty, !.fireDelay = 700,
                     !.movers = {"ENEMY"}, !.to = POff] :
        el \in {50, 100}, ty \in {"ENEMY_KAMIKAZE", "ENEMY_TANK"}}

SpawnNext == Frame(SpawnEnvs, SpawnTicks)

SpawnSpec == SpawnInit /\ [][SpawnNext]_vars

\* C27: a frame calls spawnEnemy at most once; it does so only when the spawn
\* timer, with the frame's dt added, exceeds max(0.3, 1.8 - 0.1 m) seconds
\* while no boss is active (m the multiplier of the frame) and only when it
\* exceeds 3.0 seconds while a boss is active; a spawn leaves the timer at 0,
\* and a frame without a spawn leaves it advanced by dt.
C27_SpawnRateLimited ==
    [][Simulated =>
         LET t == spawnTimer + trace'.dt
             m == difficultyMultiplier'
             boss == bossActive \/ score > bossNextSpawnScore
         IN /\ trace'.spawns <= 1
            /\ trace'.spawns = 1 =>
                  /\ IF boss THEN t > 3000
                     ELSE 10 * t > 18000 - m /\ t > 300
                  /\ spawnTimer' = 0
            /\ trace'.spawns = 0 => spawnTimer' = t]_vars

\* an enemy has been spawned at the floor of the interval
C27_Witness ==
    /\ trace.spawns = 1
    /\ ~bossActive
    /\ 18000 - difficultyMultiplier < 3000
    /\ lastOp.env.elapsed = 50

\* C28 as stated: an enemy starts with the base health of its type times the
\* multiplier m at which it is spawned, also where m is below 1.
C28_HealthScaled ==
    \A b \in trace.born : b.health = BaseHealth(b.type) * b.mult

\* C28: an enemy starts with the base health of its type times m where m is
\* at least 1, and with the base health itself where m is below 1.
C28_HealthScaledFromOne ==
    \A b \in trace.born :
        b.health = IF b.mult < Milli THEN BaseHealth(b.type) * Milli
                   ELSE BaseHealth(b.type) * b.mult

\* an enemy has been spawned in an EASY game whose multiplier is below 1
C28_Witness ==
    \E b \in trace.born : b.mult < Milli /\ settings = "EASY"

----------------------------------------------------------------------------
(* The hunt: the player fires one missile after the second enemy has come;  *)
(* the enemies stay where they are, come nearer or leave the playfield      *)

HuntFire == 37
HuntTicks == 55

HuntEnvs(n) ==
    {[IdleEnv EXCEPT !.fire = f, !.movers = m, !.to = t, !.steer = 1] :
        f \in {FALSE, n = HuntFire}, m \in {{}, {"ENEMY"}}, t \in {PMid, POff}}

HuntNext ==
    \/ Start
    \/ ticks = 0 /\ SelectMissiles
    \/ Frame(HuntEnvs(ticks), HuntTicks)

HuntSpec == InitNormal /\ [][HuntNext]_vars

\* the enemies of an observed update that are not marked and lie within the
\* scan radius of the missile
InScan(a) == {c \in a.enemies : ~c.marked /\ c.d2 < ScanRadius * ScanRadius}

\* the target the missile came with is null, swept or marked
Dropped(a) ==
    \/ a.had \in {NoTarget, DeadTarget}
    \/ \E c \in a.enemies : c.id = a.had /\ c.marked

\* C29: a missile that comes to its update with no target, or with a target
\* that is marked for removal, leaves the targeting with the nearest unmarked
\* enemy within the scan radius (the first of the list among equally near
\* ones), or with no target if there is none; otherwise it keeps its target;
\* and a missile whose guidance runs has a target that is not marked.
C29_RetargetsOffMarked ==
    \A a \in trace.aims :
        /\ Dropped(a) /\ InScan(a) = {} => a.target = NoTarget
        /\ Dropped(a) /\ InScan(a) # {} =>
              \E c \in InScan(a) :
                  /\ a.target = c.id
                  /\ \A o \in InScan(a) : c.d2 < o.d2 \/ (c.d2 = o.d2 /\ c.at <= o.at)
        /\ ~Dropped(a) => a.target = a.had
        /\ a.guided => \E c \in a.enemies : c.id = a.target /\ ~c.marked

\* a missile came to its update with a target that had been marked for
\* removal, and left the targeting with another enemy, which it steers toward
C29_Witness ==
    \E a \in trace.aims :
        /\ \E c \in a.enemies : c.id = a.had /\ c.marked
        /\ a.target \notin {NoTarget, a.had}
        /\ a.guided

----------------------------------------------------------------------------
(* MissileMath.calculateIntercept                                           *)
(*                                                                          *)
(* The arguments are integers.  A computed number is a fraction n / d with  *)
(* d > 0, or one of the three values that a division by zero yields:        *)
(* NaN, Infinity, -Infinity.  The square root is taken of perfect squares   *)
(* only, so every finite number of the computation is exact.                *)

Fin(n, d) == IF d < 0 THEN [k |-> "fin", n |-> -n, d |-> -d] ELSE [k |-> "fin", n |-> n, d |-> d]
NaN == [k |-> "NaN", n |-> 0, d |-> 1]
PosInf == [k |-> "Infinity", n |-> 1, d |-> 1]
NegInf == [k |-> "-Infinity", n |-> -1, d |-> 1]

\* num / den of two integers: a zero denominator is the positive zero
Div(num, den) ==
    IF den # 0 THEN Fin(num, den)
    ELSE IF num > 0 THEN PosInf
    ELSE IF num < 0 THEN NegInf
    ELSE NaN

\* x < y; every comparison with NaN is false
Less(x, y) ==
    /\ x.k # "NaN" /\ y.k # "NaN"
    /\ \/ x.k = "-Infinity" /\ y.k # "-Infinity"
       \/ y.k = "Infinity" /\ x.k # "Infinity"
       \/ x.k = "fin" /\ y.k = "fin" /\ x.n * y.d < y.n * x.d

\* Math.max and Math.min: NaN if either argument is NaN
MathMax(x, y) == IF x.k = "NaN" \/ y.k = "NaN" THEN NaN ELSE IF Less(x, y) THEN y ELSE x
MathMin(x, y) == IF x.k = "NaN" \/ y.k = "NaN" THEN NaN ELSE IF Less(y, x) THEN y ELSE x

\* p + v * t, for integers p and v
Ahead(p, v, t) ==
    CASE t.k = "fin" -> Fin(p * t.d + v * t.n, t.d)
      [] t.k = "NaN" -> NaN
      [] OTHER -> IF v = 0 THEN NaN
                  ELSE IF (v > 0) = (t.k = "Infinity") THEN PosInf ELSE NegInf

\* Math.sqrt of a perfect square
Sqrt(n) == CHOOSE r \in 0..n : r * r = n

IsSquare(n) == \E r \in 0..n : r * r = n

Coefficients(targetPos, targetVel, missilePos, missileSpeed) ==
    LET relPos == Pt(targetPos.x - missilePos.x, targetPos.y - missilePos.y)
        a == targetVel.x * targetVel.x + targetVel.y * targetVel.y
             - missileSpeed * missileSpeed
        b == 2 * (relPos.x * targetVel.x + relPos.y * targetVel.y)
        c == relPos.x * relPos.x + relPos.y * relPos.y
    IN [a |-> a, b |-> b, c |-> c, disc |-> b * b - 4 * a * c]

calculateIntercept(targetPos, targetVel, missilePos, missileSpeed) ==
    LET q == Coefficients(targetPos, targetVel, missilePos, missileSpeed)
        here == [x |-> Fin(targetPos.x, 1), y |-> Fin(targetPos.y, 1)]
    IN IF q.disc < 0 THEN here
       ELSE LET t1 == Div(-q.b + Sqrt(q.disc), 2 * q.a)
                t2 == Div(-q.b - Sqrt(q.disc), 2 * q.a)
                t == IF Less(Fin(0, 1), MathMax(t1, t2)) THEN MathMin(t1, t2)
                     ELSE MathMax(t1, t2)
            IN IF Less(t, Fin(0, 1)) THEN here
               ELSE [x |-> Ahead(targetPos.x, targetVel.x, t),
                     y |-> Ahead(targetPos.y, targetVel.y, t)]

\* The arguments: the missile at the origin or beside it, the target on a
\* coarse grid around it, slow and fast targets, slow and fast missiles
AimCoords == {-4, -3, 0, 3, 4}
AimSpeeds == {-2, 0, 1, 2}
MissileSpeeds == {0, 1, 2, 3}

AimInputs ==
    {in \in [targetPos : {Pt(x, y) : x, y \in AimCoords},
             targetVel : {Pt(x, y) : x, y \in AimSpeeds},
             missilePos : {Pt(0, 0), Pt(1, 0)},
             missileSpeed : MissileSpeeds] :
        LET q == Coefficients(in.targetPos, in.targetVel, in.missilePos, in.missileSpeed)
        IN q.disc < 0 \/ IsSquare(q.disc)}

\* a call of calculateIntercept; trace.aimed holds the point returned
Aim ==
    /\ \E in \in AimInputs :
          /\ lastOp' = Op("calculateIntercept", 0, in)
          /\ trace' = [NoTrace EXCEPT !.aimed =
                          <<calculateIntercept(in.targetPos, in.targetVel, in.missilePos,
                                               in.missileSpeed)>>]
    /\ UNCHANGED <<state, player, entities, score, difficultyMultiplier, settings,
                   spawnTimer, bossActive, bossNextSpawnScore, shakeTimer, shakeIntensity,
                   hitStopTimer, rafPending, ui, texts, size, ticks>>

AimSpec == InitNormal /\ [][Aim]_vars

\* the quadratic of the last call
Quadratic ==
    Coefficients(lastOp.env.targetPos, lastOp.env.targetVel, lastOp.env.missilePos,
                 lastOp.env.missileSpeed)

Finite(p) == p.x.k = "fin" /\ p.y.k = "fin"

\* the point is the target's position
AtTarget(p) ==
    /\ Finite(p)
    /\ p.x.n = lastOp.env.targetPos.x * p.x.d
    /\ p.y.n = lastOp.env.targetPos.y * p.y.d

\* both roots of the quadratic are negative: their product is positive and
\* their sum is negative
BothRootsNegative(q) == q.a # 0 /\ q.disc >= 0 /\ q.a * q.c > 0 /\ q.a * q.b > 0

\* C30: calculateIntercept returns a finite point, and it returns the
\* target's position whenever the quadratic has no real root, has no
\* non-negative root, or has the leading coefficient 0.
C30_AimPointValid ==
    lastOp.op = "calculateIntercept" =>
        /\ Finite(trace.aimed[1])
        /\ (Quadratic.disc < 0 \/ BothRootsNegative(Quadratic) \/ Quadratic.a = 0)
              => AtTarget(trace.aimed[1])

\* the same for the calls whose leading coefficient is not 0
AimPointValidOffDegenerate ==
    lastOp.op = "calculateIntercept" /\ Quadratic.a # 0 =>
        /\ Finite(trace.aimed[1])
        /\ (Quadratic.disc < 0 \/ BothRootsNegative(Quadratic)) => AtTarget(trace.aimed[1])

----------------------------------------------------------------------------
(* Recovery of the abilities: an unbounded game in which the player         *)
(* triggers abilities before the first frame and then idles; the enemies    *)
(* fall past the player.  The frames come at 100 ms or with no time         *)
(* elapsed, the first one after start() possibly 5 ms early.  The frame     *)
(* counter saturates: it only tells the first frame from the later ones.    *)

RecoverCap == 1

RecoverEnvs(n) ==
    {[IdleEnv EXCEPT !.elapsed = ms, !.movers = {"ENEMY"}, !.to = POff] :
        ms \in IF n = 0 THEN {-5, 100} ELSE {0, 100}}

RecoverTrigger(index) ==
    /\ ticks = 0
    /\ TriggerSkill(index)

RecoverFrame ==
    /\ \E env \in RecoverEnvs(ticks) : Tick(env)
    /\ ticks' = Min(ticks + 1, RecoverCap)

RecoverNext ==
    \/ Start
    \/ \E index \in 1..3 : RecoverTrigger(index)
    \/ RecoverFrame

\* frames with dt > 0 keep coming
RecoverFairness == []<><<RecoverFrame /\ trace'.dt > 0>>_vars

RecoverSpec == InitNormal /\ [][RecoverNext]_vars /\ RecoverFairness

\* the step is a successful trigger of the ability
Triggered(index) ==
    /\ Triggering(index)
    /\ Live
    /\ Cooldown(player, index) <= 0
    /\ player.mana >= SkillCost(index)

\* while frames with dt > 0 keep coming, a cooldown that runs reaches 0
RecoversEventually ==
    \A index \in 1..3 :
        (Live /\ Cooldown(player, index) > 0) ~> (Live /\ Cooldown(player, index) <= 0)

\* C31: the cooldown of an ability rises only in a successful trigger, which
\* sets it to its maximum; a frame with dt > 0 takes dt off a cooldown that
\* is positive; and while the player lives and frames with dt > 0 keep
\* coming, every cooldown that runs reaches 0 or less again.
C31_AbilitiesRecover ==
    /\ [][\A index \in 1..3 :
            /\ (player'.present /\ Cooldown(player', index) > Cooldown(player, index)) =>
                  Triggered(index) /\ Cooldown(player', index) = CooldownMax(player, index)
            /\ (lastOp'.op = "loop" /\ trace'.dt > 0 /\ Live /\ Cooldown(player, index) > 0) =>
                  Cooldown(player', index) = Cooldown(player, index) - trace'.dt]_vars
    /\ RecoversEventually

----------------------------------------------------------------------------
(* The shield over its whole cycle: an unbounded game in which the shield   *)
(* is asked for at any moment, with the frames of RecoverSpec               *)

ShieldNext ==
    \/ Start
    \/ TriggerSkill(1)
    \/ RecoverFrame

ShieldSpec == InitNormal /\ [][ShieldNext]_vars /\ RecoverFairness

Shields(es) == CountKind(es, "SKILL_SHIELD")

\* C32: a successful shield trigger makes the shield active with its timer at
\* the duration, and nothing else activates it; every frame with dt # 0 takes
\* dt off the timer of an active shield, whatever the cooldown, and the
\* shield stays active exactly while the timer is above 0; after a frame a
\* Shield entity is in the collection only if the shield is active; there is
\* never more than one Shield entity; and an active shield ends while frames
\* with dt > 0 keep coming.
C32_ShieldActive ==
    /\ [][/\ Triggered(1) =>
                /\ player'.skills.shield.active
                /\ player'.skills.shield.activeTimer = player.skills.shield.duration
          /\ (player'.present /\ player'.skills.shield.active /\ ~player.skills.shield.active)
                => Triggered(1)
          /\ (lastOp'.op = "loop" /\ trace'.dt # 0 /\ Live /\ player.skills.shield.active) =>
                /\ player'.skills.shield.activeTimer
                      = player.skills.shield.activeTimer - trace'.dt
                /\ player'.skills.shield.active <=> player'.skills.shield.activeTimer > 0
          /\ (lastOp'.op = "loop" /\ Shields(entities') > 0) => player'.skills.shield.active
          /\ Shields(entities') <= 1]_vars
    /\ (Live /\ player.skills.shield.active) ~> (Live /\ ~player.skills.shield.active)

\* the shield has run out in this frame, 15 s before it can be triggered again
C32_Witness ==
    /\ lastOp.op = "loop"
    /\ Live
    /\ ~player.skills.shield.active
    /\ player.skills.shield.activeTimer = 0
    /\ player.skills.shield.current = 15 * Milli
    /\ Shields(entities) = 0

----------------------------------------------------------------------------
(* The arsenal: a NORMAL game in progress with no kill yet.  An enemy has   *)
(* come down to the middle of the field, at full health or worn down to 2;  *)
(* the player holds one of the five weapons, or a bomb, a beam or a gravity *)
(* well is already out.  The player fires, releases a shockwave or a well,  *)
(* enemies ram, projectiles fly to the middle of the field.                 *)

ArsenalTicks == 4

\* a game in progress between two frames: the player p, the entities es
\* besides the player, timer since the last spawn
Skirmish(p, es, timer) ==
    /\ state = "PLAYING"
    /\ player = p
    /\ entities = <<PlayerStub>> \o es
    /\ score = 0
    /\ difficultyMultiplier = Multiplier("NORMAL", 0)
    /\ settings = "NORMAL"
    /\ spawnTimer = timer
    /\ bossActive = FALSE
    /\ bossNextSpawnScore = 3000
    /\ shakeTimer = 0
    /\ shakeIntensity = 0
    /\ hitStopTimer = 0
    /\ rafPending = 1
    /\ ui = [score |-> 0, health |-> p.health, weapon |-> p.currentWeapon, gameOver |-> << >>]
    /\ texts = << >>
    /\ trace = NoTrace
    /\ size = Canvas
    /\ lastOp = Op("loop", 0, IdleEnv)
    /\ ticks = 0

\* the enemy in the middle of the field
Intruder(etype, health) ==
    [Enemy(PMid, Multiplier("NORMAL", 0), FALSE, etype, 100) EXCEPT !.id = 1, !.health = health]

Intruders ==
    {Intruder("ENEMY_BASIC", h) : h \in {BaseHealth("ENEMY_BASIC") * Milli, 2 * Milli}}
    \cup {Intruder("ENEMY_TANK", BaseHealth("ENEMY_TANK") * Milli)}

Armed(weapon) == [NewPlayer EXCEPT !.currentWeapon = weapon]

\* a bomb thrown 400 ms ago
BombOut == [Bomb(PMid) EXCEPT !.id = 2, !.timer = 400]

\* a beam released 400 ms ago
BeamOut ==
    LET w == [player |-> Armed("LASER")]
        l == [Laser(w.player) EXCEPT !.id = 2]
    IN LaserUpdate(LaserUpdate(LaserUpdate(LaserUpdate(l, w, 100), w, 100), w, 100), w, 100)

\* a gravity well triggered 9 s ago: its life is over, its collapse all but over
WellOut ==
    [Ent("SKILL_BLACKHOLE", PMid, 10) EXCEPT !.id = 2, !.life = 0, !.isDespawning = TRUE,
                                            !.timer = 1000]

WellPlayer ==
    [NewPlayer EXCEPT !.mana = 85 * Milli, !.skills.blackhole.current = 6 * Milli]

ArsenalInit ==
    \E e \in Intruders :
        \/ \E weapon \in {"VULCAN", "PLASMA", "TESLA", "BOMB", "LASER"} :
              Skirmish(Armed(weapon), <<e>>, 1500)
        \/ Skirmish([Armed("BOMB") EXCEPT !.sinceShot = 400], <<e, BombOut>>, 1500)
        \/ Skirmish([Armed("LASER") EXCEPT !.sinceShot = 400], <<e, BeamOut>>, 1500)
        \/ Skirmish(WellPlayer, <<e, WellOut>>, 1500)

ArsenalEnvs ==
    {[IdleEnv EXCEPT !.fire = f, !.keys = k, !.fireDelay = 700] :
        f \in BOOLEAN, k \in {{}, {2}, {3}}}
    \cup
    {[IdleEnv EXCEPT !.movers = m, !.to = t, !.fireDelay = 0, !.etype = "ENEMY_FAST"] :
        m \in {{"ENEMY"}, {"BULLET_PLAYER", "WEAPON_MISSILE"}, {"BULLET_ENEMY"}},
        t \in {PNear, PMid}}

ArsenalNext == Frame(ArsenalEnvs, ArsenalTicks)

ArsenalSpec == ArsenalInit /\ [][ArsenalNext]_vars

\* the types that may take health from the player
Foes == {"ENEMY", "BULLET_ENEMY"}

\* C33: the player's health falls only in a frame and only through a damage
\* applied by an enemy bullet or an Enemy in contact; an Enemy's health falls
\* only through a damage that no enemy bullet and no Enemy applied; every
\* damage of a frame is one of these.
C33_NoFriendlyFire ==
    [][/\ \A b \in trace'.blows : (b.id = 0) <=> (b.by \in Foes)
       /\ \A d \in trace'.damage : \E b \in trace'.blows : b.id = d.id /\ b.after = d.after
       /\ (player.present /\ player'.present /\ player'.health < player.health) =>
             \E b \in trace'.blows : b.id = 0
       /\ \A i \in 1..Len(entities) : \A j \in 1..Len(entities') :
             (/\ IsEnemy(entities[i]) /\ IsEnemy(entities'[j])
              /\ entities'[j].id = entities[i].id
              /\ entities'[j].health < entities[i].health) =>
                \E b \in trace'.blows : b.id = entities[i].id /\ b.after = entities'[j].health
      ]_vars

\* a bullet of the player, still in the collection, went through
\* handleCollision together with the player
C33_Witness ==
    /\ lastOp.op = "loop"
    /\ \E i \in 1..Len(entities) :
          /\ entities[i].kind = "BULLET_PLAYER"
          /\ {0, entities[i].id} \in trace.handled
    /\ \E b \in trace.blows : b.id # 0

----------------------------------------------------------------------------
(* Weapon switching: a new game, or a game in progress with the player one  *)
(* contact from destruction and an enemy due; the weapon is switched at any *)
(* moment, in the menu, while the charge weapon charges, and after the      *)
(* player's destruction                                                     *)

SwitchTicks == 4

SwitchInit ==
    \/ InitNormal
    \/ MidGame("NORMAL", 5, "ENEMY_BASIC", 9, << >>, 1700)

SwitchEnvs ==
    {[IdleEnv EXCEPT !.fire = f] : f \in BOOLEAN}
    \cup {[IdleEnv EXCEPT !.movers = {"ENEMY"}, !.to = PNear]}

SwitchNext ==
    \/ Start
    \/ TriggerWeaponSwitch
    \/ Frame(SwitchEnvs, SwitchTicks)

SwitchSpec == SwitchInit /\ [][SwitchNext]_vars

WeaponCycle == <<"VULCAN", "PLASMA", "TESLA", "BOMB", "LASER">>

\* the weapon after weapon in the cycle
Following(weapon) ==
    WeaponCycle[((CHOOSE n \in 1..Len(WeaponCycle) : WeaponCycle[n] = weapon)
                 % Len(WeaponCycle)) + 1]

\* C34: with a live player, triggerWeaponSwitch equips the weapon that follows
\* the current one in the cycle VULCAN, PLASMA, TESLA, BOMB, LASER, VULCAN,
\* sets the charge level to 0 and the charging flag to false, calls
\* onWeaponChange once, with the new weapon, and changes nothing else; five
\* switches in a row give the weapon they started from; without a live player
\* the call changes nothing and calls no callback.
C34_WeaponCycle ==
    [][lastOp'.op = "triggerWeaponSwitch" =>
          /\ IF Live
             THEN /\ player' = [player EXCEPT !.currentWeapon = Following(@),
                                              !.chargeLevel = 0, !.isCharging = FALSE]
                  /\ trace'.weapon = <<player'.currentWeapon>>
                  /\ ui' = [ui EXCEPT !.weapon = player'.currentWeapon]
                  /\ switchWeapon(switchWeapon(switchWeapon(switchWeapon(
                                      switchWeapon(player))))).currentWeapon
                        = player.currentWeapon
             ELSE /\ trace'.weapon = << >>
                  /\ UNCHANGED <<player, ui>>
          /\ UNCHANGED <<state, entities, score, difficultyMultiplier, settings, spawnTimer,
                         bossActive, bossNextSpawnScore, shakeTimer, shakeIntensity,
                         hitStopTimer, rafPending, size>>]_vars

\* the switch from the charge weapon back to the first weapon
C34_Witness ==
    /\ lastOp.op = "triggerWeaponSwitch"
    /\ Live
    /\ ticks > 0
    /\ player.currentWeapon = "VULCAN"
    /\ trace.weapon = <<"VULCAN">>

----------------------------------------------------------------------------
(* Boss fight in a window that the user makes narrower: the boss hangs at   *)
(* x = 400 of the 800 px canvas when resize() reports a width of 250 px     *)

NarrowWindows == {Canvas, [width |-> 250, height |-> Height]}

NarrowNext ==
    \/ \E sz \in NarrowWindows : Resize(sz.width, sz.height)
    \/ Frame(BossEnvs, BossTicks)

NarrowSpec == BossInit /\ [][NarrowNext]_vars

\* a boss Enemy is in the live collection
BossPresent == \E i \in 1..Len(entities) : entities[i].kind = "ENEMY" /\ entities[i].isBoss

\* C35: after every tick the boss-active flag is true exactly when a boss
\* Enemy is in the live collection; a boss does not leave the collection with
\* the flag still set
C35_BossFlagTracksBoss == lastOp.op = "loop" => (bossActive <=> BossPresent)

\* the direction of C35 that culling does not touch: a boss in the collection
\* has the flag set
BossImpliesFlag == lastOp.op = "loop" => (BossPresent => bossActive)

----------------------------------------------------------------------------
(* Last stand: five enemies were shot, the player has 20 or 10 health left; *)
(* enemies come down and ram, and what they drop falls next to the player   *)

StandTicks == 4

StandInit == \E hits \in {8, 9} : MidGame("NORMAL", 5, "ENEMY_BASIC", hits, << >>, 1700)

StandEnvs ==
    {[IdleEnv EXCEPT !.etype = ty, !.fireDelay = 700, !.movers = m, !.to = PNear,
                     !.drop = d, !.itemType = it] :
        ty \in {"ENEMY_KAMIKAZE", "ENEMY_BASIC"}, m \in {{}, {"ENEMY"}}, d \in BOOLEAN,
        it \in {"HEALTH", "MANA", "WEAPON_UP"}}

StandNext == Frame(StandEnvs, StandTicks)

StandSpec == StandInit /\ [][StandNext]_vars

\* C36: whenever the game-over callback fires, the player's health is at most
\* 0: nothing after the contact that marked the player raises it before the
\* end of the game is signalled
C36_GameOverAtZero == [][Len(ui'.gameOver) > Len(ui.gameOver) => player'.health <= 0]_vars

----------------------------------------------------------------------------
\* C37: at most one animation-frame callback is pending at any time, across
\* start(), frame callbacks, the end of the game and the next start(): no two
\* chains of callbacks reschedule themselves side by side
C37_OneFrameChain == rafPending <= 1

----------------------------------------------------------------------------
(* A long boss fight: the boss came at 3200 points; four or ten tanks have  *)
(* been shot by the time it is nearly destroyed                             *)

HarvestInit ==
    \E kills \in {4, 10}, hits \in BossHits :
        MidGame("NORMAL", kills, "ENEMY_TANK", hits, <<WornBoss("NORMAL")>>, 0)

HarvestSpec == HarvestInit /\ [][BossNext]_vars

\* C38: after every gainXp call the experience of the player is below the
\* threshold of the next level, whatever amount was gained
C38_XpBelowThreshold == player.present => player.xp < player.nextLevelXp

----------------------------------------------------------------------------
\* C39: the mana of the player stays within [0, maxMana] in every reachable
\* state, under regeneration, ability triggers, mana pickups and level-ups
C39_ManaInRange == player.present => player.mana >= 0 /\ player.mana <= player.maxMana

----------------------------------------------------------------------------
\* the Enemies of the live collection
Enemies == {i \in 1..Len(entities) : entities[i].kind = "ENEMY"}

\* C40: after every tick every Enemy that remains in the live collection has
\* health above 0: a damage that brings an Enemy to 0 or below makes it die in
\* the same tick
C40_SurvivorsHaveHealth == lastOp.op = "loop" => \A i \in Enemies : entities[i].health > 0

\* a tick in which an Enemy was brought to 0 or below and is gone, while
\* another Enemy remains
C40_Witness ==
    /\ lastOp.op = "loop"
    /\ \E b \in trace.blows :
          /\ b.id # 0
          /\ b.after <= 0
          /\ \A i \in Enemies : entities[i].id # b.id
    /\ Enemies # {}

====
